---- MODULE Spec2Model ----
(***************************************************************************)
(* A model of the MIDAS base node (src/midas/node.py): the primary ring    *)
(* buffer and its receiver, the secondary rings and the user workers that  *)
(* push to them, the responders and their snapshots, the load-balancing    *)
(* broker, the publisher and the start/stop supervisor.                    *)
(*                                                                         *)
(* Every OS process of the node is one entry of a process table; its "pc"  *)
(* is the statement it is about to execute.  Arrays are 0-based functions  *)
(* as in the source; Python lists built by a snapshot are sequences.       *)
(***************************************************************************)
EXTENDS Integers, Sequences, FiniteSets, TLC

(* ------------------------------ bounds --------------------------------- *)
\* Length B of the primary ring in the ring and life-cycle scenarios.
BufferSize == 2
\* Number of primary channels.
NChannels == 2
\* Samples the external stream delivers before it goes silent.
MaxSamples == 3
\* Calls of start() the supervisor makes.
MaxStarts == 2
\* Samples the stream delivers where start() and stop() come in any order.
MaxSamplesAnyCaller == 1
\* Responders of the ring, secondary and life-cycle scenarios.
NWorkers == 1
\* Requests clients send in the ring, secondary and life-cycle scenarios.
MaxRequests == 1
\* Responders and back-to-back requests of the broker scenario (S6).
NWorkersBroker == 3
MaxRequestsBroker == 9
\* Secondary channels M, their ring length B_c, and the samples pushed.
NSecondary == 2
BufferSizeSecondary == 2
MaxPushes == 3
\* Samples pushed to a secondary channel where two snapshots contend.
MaxPushesLocks == 1
\* Longest chunk handed to push_chunk_secondary.
MaxChunk == 2
\* Messages user workers put on the outbound queue, and how many of them a
\* user worker other than the first may put.
MaxMessages == 13
MaxMessagesOther == 1
\* Metric functions the user registers.
MaxMetrics == 2
\* Responders and requests where a snapshot is repeated.
NWorkersRepeat == 2
MaxRequestsRepeat == 2

\* self.message_queue = mp.Queue(10)
QueueCapacity == 10

\* "t is None": the source delivered no timestamp with the sample.
NoneT == -1

Max(a, b) == IF a >= b THEN a ELSE b
Min(a, b) == IF a <= b THEN a ELSE b

(* ------------------------------ strings -------------------------------- *)
\* A Python string is a sequence of pieces: a piece is one separator
\* (":", "," or " ") or a run of text holding none; the string's text is the
\* concatenation of its pieces.
RECURSIVE Text(_)
Text(s) == IF s = <<>> THEN "" ELSE Head(s) \o Text(Tail(s))

\* "".join(parts)
RECURSIVE Join(_)
Join(parts) == IF parts = <<>> THEN <<>> ELSE Head(parts) \o Join(Tail(parts))

\* s.split(sep)
RECURSIVE Split(_, _)
Split(s, sep) ==
    IF \A i \in 1..Len(s) : s[i] # sep THEN <<s>>
    ELSE LET i == CHOOSE i \in 1..Len(s) :
                      s[i] = sep /\ \A j \in 1..(i - 1) : s[j] # sep
         IN  <<SubSeq(s, 1, i - 1)>> \o Split(SubSeq(s, i + 1, Len(s)), sep)

\* s.replace(old, new)
Replace(s, old, new) == [i \in 1..Len(s) |-> IF s[i] = old THEN new ELSE s[i]]

\* s.strip()
RECURSIVE LStrip(_)
LStrip(s) == IF s # <<>> /\ Head(s) = " " THEN LStrip(Tail(s)) ELSE s
Reverse(s) == [i \in 1..Len(s) |-> s[Len(s) + 1 - i]]
Strip(s) == Reverse(LStrip(Reverse(LStrip(s))))

\* dict(zip(keys, values)): each key with the last value zipped to it
DictZip(keys, values) ==
    [k \in {keys[i] : i \in 1..Len(keys)} |->
        values[CHOOSE i \in 1..Len(keys) :
                  keys[i] = k /\ \A j \in (i + 1)..Len(keys) : keys[j] # k]]

\* the values a request can return: a string, or a mapping
Str(text) == [str |-> text]
Dict(mapping) == [dict |-> mapping]

(* --------------------------- metric registry --------------------------- *)
\* A metric function is its __name__, its __doc__ (<<docstring>>, or NoDoc
\* for None) and the number of positional arguments it accepts.
NoDoc == <<>>

\* def test(self): """ Toy metric function that returns 'heads' or 'tails'. """
TestMetric ==
    [name |-> "test",
     doc |-> <<<<" ", "Toy metric function that returns 'heads' or 'tails'.",
                 " ">>>>,
     arity |-> 0]

\* metric functions a user registers: one of the data alone, one of the
\* data and one parameter
MeanMetric ==
    [name |-> "mean", doc |-> <<<<"\n", " ", "mean of a channel", "\n">>>>,
     arity |-> 1]
ScaleMetric ==
    [name |-> "scale", doc |-> <<<<"scaled channel">>>>, arity |-> 2]

\* generate_metric_lists, its three assignments
MetricNames(fns) == [i \in 1..Len(fns) |-> fns[i].name]
MetricDescriptions(fns) ==
    DictZip(MetricNames(fns),
            [i \in 1..Len(fns) |-> Text(Strip(Split(fns[i].doc[1], "\n")[1]))])
MetricPointers(fns) == DictZip(MetricNames(fns), fns)

(* ------------------------------ state ---------------------------------- *)
VARIABLES
    node,                   \* constructor arguments kept on self
    env,                    \* what the environment of the scenario does
    run_state,              \* self.run_state
    wptr,                   \* self.wptr
    buffer_full,            \* self.buffer_full
    lock_primary,           \* holder of self.lock_primary, or Free
    channel_data,           \* self.channel_data[c][slot], c in 1..NChannels
    time_array,             \* self.time_array[slot]
    wptr_secondary,         \* self.wptr_secondary[c]
    buffer_full_secondary,  \* self.buffer_full_secondary[c]
    lock_secondary,         \* holder of self.lock_secondary[c], or Free
    channel_data_secondary, \* self.channel_data_secondary[c][slot]
    time_array_secondary,   \* self.time_array_secondary[c][slot]
    message_queue,          \* self.message_queue
    sup,                    \* the process calling start() and stop()
    beacon,                 \* status of self.beacon
    proc_broker,            \* broker process of each start()
    proc_publisher,         \* publisher process of each start()
    proc_receiver,          \* receiver process of each start()
    proc_responder,         \* responder processes of each start()
    proc_user,              \* user-defined processes of each start()
    frontend,               \* client requests queued at the front socket
    backend,                \* frames queued at the broker's back socket
    inbox,                  \* frames the broker sent to each responder
    replies,                \* per client: replies routed back to it
    published,              \* strings sent on the publisher socket
    stream_online,          \* the external stream can be resolved
    npulled,                \* samples the stream has delivered
    nsent,                  \* requests clients have sent
    nqueued,                \* messages user workers have enqueued
    npushed,                \* per secondary channel: samples handed to a push
    arrivals,               \* history: samples appended, in order
    committed               \* history: each secondary channel after whole pushes

vars == <<node, env, run_state, wptr, buffer_full, lock_primary, channel_data,
          time_array, wptr_secondary, buffer_full_secondary, lock_secondary,
          channel_data_secondary, time_array_secondary, message_queue, sup,
          beacon, proc_broker, proc_publisher, proc_receiver, proc_responder,
          proc_user, frontend, backend, inbox, replies, published,
          stream_online, npulled, nsent, nqueued, npushed, arrivals,
          committed>>

\* groups of variables an action leaves alone
primaryVars == <<wptr, buffer_full, channel_data, time_array>>
secondaryVars == <<wptr_secondary, buffer_full_secondary,
                   channel_data_secondary, time_array_secondary, committed>>
socketVars == <<frontend, backend, inbox, replies>>
configVars == <<node, env, stream_online>>
superVars == <<sup, beacon, run_state>>

(* ---------------------------- process ids ------------------------------ *)
Gens == 1..MaxStarts
MaxN == Max(NWorkers, NWorkersBroker)
RIds == Gens \X (1..MaxN)
UIds == Gens \X (1..NSecondary)
Channels == 1..NChannels
SecChannels == 1..NSecondary

Free == <<"free", 0, 0>>
RecvPid(g) == <<"receiver", g, 0>>
RespPid(r) == <<"responder", r[1], r[2]>>
UserPid(u) == <<"user", u[1], u[2]>>

Slots == 0..(node.buffer_size - 1)
SecSlots == 0..(node.buffer_size_secondary - 1)

(* --------------------------- external stream --------------------------- *)
\* The n-th sample of the stream: one value per channel.
SampleX(n) == [c \in Channels |-> 10 * n + (c - 1)]

\* The timestamps the source may deliver with the n-th sample: its number;
\* or 10 with the first sample and none after it; or its number or none.
SampleT(n) ==
    CASE env.timestamps = "given" -> {n}
      [] env.timestamps = "first" -> IF n = 1 THEN {10} ELSE {NoneT}
      [] OTHER -> {n, NoneT}

\* The number of the sample pull_sample returns next.  A stream that does not
\* stall keeps delivering its last sample once env.samples have been seen.
NextSample == Min(npulled + 1, env.samples)

(* ------------------------------ receiver ------------------------------- *)
NoReceiver ==
    [pc |-> "none", i |-> 0, k |-> 0, x |-> SampleX(0), t |-> 0, last_time |-> 0]

SetReceiver(g, r) == proc_receiver' = [proc_receiver EXCEPT ![g] = r]

\* i += 1.  Under a stream that never stalls the counter is kept in
\* [0, 2B): the code reads it only as i % buffer_size and i >= buffer_size.
NextI(i) ==
    IF ~env.stall /\ i + 1 >= 2 * node.buffer_size
    THEN i + 1 - node.buffer_size
    ELSE i + 1

\* while not streams: resolve_byprop(...) found the stream
ReceiverResolved(g) ==
    /\ proc_receiver[g].pc = "resolve"
    /\ stream_online
    /\ SetReceiver(g, [proc_receiver[g] EXCEPT !.pc = "init"])
    /\ UNCHANGED <<configVars, superVars, primaryVars, secondaryVars, socketVars,
                   lock_primary, lock_secondary, message_queue, proc_broker,
                   proc_publisher, proc_responder, proc_user, published,
                   npulled, nsent, nqueued, npushed, arrivals>>

\* while not streams: the attempt timed out; the loop tests only streams
ReceiverRetry(g) ==
    /\ proc_receiver[g].pc = "resolve"
    /\ ~stream_online
    /\ UNCHANGED vars

\* inlet = ...; i = 0; self.last_time.value = 0
ReceiverInit(g) ==
    /\ proc_receiver[g].pc = "init"
    /\ SetReceiver(g, [proc_receiver[g] EXCEPT !.pc = "loop", !.i = 0,
                                                !.last_time = 0])
    /\ UNCHANGED <<configVars, superVars, primaryVars, secondaryVars, socketVars,
                   lock_primary, lock_secondary, message_queue, proc_broker,
                   proc_publisher, proc_responder, proc_user, published,
                   npulled, nsent, nqueued, npushed, arrivals>>

\* while self.run_state.value:
ReceiverLoop(g) ==
    /\ proc_receiver[g].pc = "loop"
    /\ SetReceiver(g, IF run_state = 1
                       THEN [proc_receiver[g] EXCEPT !.pc = "pull"]
                       ELSE [NoReceiver EXCEPT !.pc = "done"])
    /\ UNCHANGED <<configVars, superVars, primaryVars, secondaryVars, socketVars,
                   lock_primary, lock_secondary, message_queue, proc_broker,
                   proc_publisher, proc_responder, proc_user, published,
                   npulled, nsent, nqueued, npushed, arrivals>>

\* x, t = inlet.pull_sample()   (blocks until the stream delivers)
ReceiverPull(g) ==
    /\ proc_receiver[g].pc = "pull"
    /\ env.stall => npulled < env.samples
    /\ \E t \in SampleT(NextSample) :
         SetReceiver(g, [proc_receiver[g] EXCEPT !.pc = "acquire",
                                                 !.x = SampleX(NextSample),
                                                 !.t = t])
    /\ npulled' = NextSample
    /\ UNCHANGED <<configVars, superVars, primaryVars, secondaryVars, socketVars,
                   lock_primary, lock_secondary, message_queue, proc_broker,
                   proc_publisher, proc_responder, proc_user, published,
                   nsent, nqueued, npushed, arrivals>>

\* self.lock_primary.acquire()
ReceiverAcquire(g) ==
    /\ proc_receiver[g].pc = "acquire"
    /\ lock_primary = Free
    /\ lock_primary' = RecvPid(g)
    /\ SetReceiver(g, [proc_receiver[g] EXCEPT !.pc = "write", !.k = 1])
    /\ UNCHANGED <<configVars, superVars, primaryVars, secondaryVars, socketVars,
                   lock_secondary, message_queue, proc_broker,
                   proc_publisher, proc_responder, proc_user, published,
                   npulled, nsent, nqueued, npushed, arrivals>>

\* for k in range(self.n_channels): self.channel_data[k][self.wptr.value] = x[k]
ReceiverWrite(g) ==
    LET r == proc_receiver[g] IN
    /\ r.pc = "write"
    /\ channel_data' = [channel_data EXCEPT ![r.k][wptr] = r.x[r.k]]
    /\ SetReceiver(g, [r EXCEPT !.k = r.k + 1,
                                !.pc = IF r.k = NChannels THEN "time" ELSE "write"])
    /\ UNCHANGED <<configVars, superVars, wptr, buffer_full, time_array,
                   secondaryVars, socketVars, lock_primary, lock_secondary,
                   message_queue, proc_broker, proc_publisher, proc_responder,
                   proc_user, published, npulled, nsent, nqueued, npushed, arrivals>>

\* a receiver that takes the sampling interval to be 1
ReceiverTimeUnit(g) ==
    LET r == proc_receiver[g]
        t == IF r.t = NoneT THEN r.last_time + 1 ELSE r.t
    IN
    /\ r.pc = "time"
    /\ time_array' = [time_array EXCEPT ![wptr] = t]
    /\ SetReceiver(g, [r EXCEPT !.t = t, !.last_time = t, !.pc = "advance"])
    /\ UNCHANGED <<configVars, superVars, wptr, buffer_full, channel_data,
                   secondaryVars, socketVars, lock_primary, lock_secondary,
                   message_queue, proc_broker, proc_publisher, proc_responder,
                   proc_user, published, npulled, nsent, nqueued, npushed, arrivals>>

\* if t is None: t = last_time + sampling_rate
\* self.time_array[self.wptr.value] = t; self.last_time.value = t
ReceiverTime(g) ==
    LET r == proc_receiver[g]
        t == IF r.t = NoneT THEN r.last_time + node.sampling_rate ELSE r.t
    IN
    /\ r.pc = "time"
    /\ time_array' = [time_array EXCEPT ![wptr] = t]
    /\ SetReceiver(g, [r EXCEPT !.t = t, !.last_time = t, !.pc = "advance"])
    /\ UNCHANGED <<configVars, superVars, wptr, buffer_full, channel_data,
                   secondaryVars, socketVars, lock_primary, lock_secondary,
                   message_queue, proc_broker, proc_publisher, proc_responder,
                   proc_user, published, npulled, nsent, nqueued, npushed, arrivals>>

\* i += 1; self.wptr.value = i % self.buffer_size
ReceiverAdvance(g) ==
    LET r == proc_receiver[g]
        i == NextI(r.i)
    IN
    /\ r.pc = "advance"
    /\ wptr' = i % node.buffer_size
    /\ SetReceiver(g, [r EXCEPT !.i = i, !.pc = "release"])
    /\ UNCHANGED <<configVars, superVars, buffer_full, channel_data, time_array,
                   secondaryVars, socketVars, lock_primary, lock_secondary,
                   message_queue, proc_broker, proc_publisher, proc_responder,
                   proc_user, published, npulled, nsent, nqueued, npushed, arrivals>>

\* self.lock_primary.release()
ReceiverRelease(g) ==
    LET r == proc_receiver[g] IN
    /\ r.pc = "release"
    /\ lock_primary' = Free
    /\ arrivals' = IF env.stall THEN Append(arrivals, [x |-> r.x, t |-> r.t])
                               ELSE arrivals
    /\ SetReceiver(g, [r EXCEPT !.pc = "full"])
    /\ UNCHANGED <<configVars, superVars, primaryVars, secondaryVars, socketVars,
                   lock_secondary, message_queue, proc_broker,
                   proc_publisher, proc_responder, proc_user, published,
                   npulled, nsent, nqueued, npushed>>

\* if (0 == self.buffer_full.value) and (i >= self.buffer_size):
\*     self.buffer_full.value = 1
ReceiverFull(g) ==
    LET r == proc_receiver[g] IN
    /\ r.pc = "full"
    /\ buffer_full' = IF buffer_full = 0 /\ r.i >= node.buffer_size
                      THEN 1 ELSE buffer_full
    /\ SetReceiver(g, [r EXCEPT !.pc = "loop"])
    /\ UNCHANGED <<configVars, superVars, wptr, channel_data, time_array,
                   secondaryVars, socketVars, lock_primary, lock_secondary,
                   message_queue, proc_broker, proc_publisher, proc_responder,
                   proc_user, published, npulled, nsent, nqueued, npushed, arrivals>>

ReceiverRun(g) ==
    \/ ReceiverInit(g)
    \/ ReceiverLoop(g)
    \/ ReceiverPull(g)
    \/ ReceiverAcquire(g)
    \/ ReceiverWrite(g)
    \/ ReceiverTime(g)
    \/ ReceiverAdvance(g)
    \/ ReceiverRelease(g)
    \/ ReceiverFull(g)

Receiver(g) ==
    \/ ReceiverResolved(g)
    \/ ReceiverRetry(g)
    \/ ReceiverRun(g)

(* ------------------------ snapshot arithmetic -------------------------- *)
Abs(a) == IF a < 0 THEN 0 - a ELSE a

\* mu.get_index_vector(N, bf, wp): the slots of a ring in chronological
\* order: [wp, ..., N-1, 0, ..., wp-1] when full, else [0, ..., wp-1].
GetIndexVector(N, bf, wp) ==
    IF bf # 0 THEN [j \in 1..N |-> (wp + j - 1) % N]
              ELSE [j \in 1..wp |-> j - 1]

\* a reindexing that does not unwrap: the first len(ind) slots as they lie
ReindexInPlace(a, ind) == [j \in 1..Len(ind) |-> a[j - 1]]

\* [a[j] for j in ind]
Reindex(a, ind) == [j \in 1..Len(ind) |-> a[ind[j]]]

\* ages counted from the oldest sample: [abs(i - ts[0]) for i in ts]
AgeVectorFromFirst(ts) == [j \in 1..Len(ts) |-> Abs(ts[j] - ts[1])]

\* [abs(i - ts[-1]) for i in ts]
AgeVector(ts) == [j \in 1..Len(ts) |-> Abs(ts[j] - ts[Len(ts)])]

\* mu.find_range(ages, win) for win = [end, end - duration]: the slice
\* bounds (0-based, stop exclusive) of the ages inside the window.
FindRange(ages, win) ==
    LET inside == {j \in 1..Len(ages) :
                      /\ win[1] <= ages[j]
                      /\ ages[j] < win[1] + (win[1] - win[2])}
        first == CHOOSE j \in inside : \A m \in inside : j <= m
        last == CHOOSE j \in inside : \A m \in inside : j >= m
    IN  IF inside = {} THEN <<0, 0>> ELSE <<first - 1, last>>

\* a[index_start:index_stop]
Slice(a, range) == SubSeq(a, range[1] + 1, range[2])

(* ----------------------------- responders ------------------------------ *)
NoMessage ==
    [client |-> 0, type |-> "none", complete |-> FALSE, timewindow |-> <<0, 0>>,
     parameters |-> <<>>, command |-> <<>>]
NoValue ==
    [kind |-> "none", data |-> <<>>, time |-> <<>>,
     data_secondary |-> <<>>, time_secondary |-> <<>>, result |-> Dict(<<>>)]
ErrorValue == [NoValue EXCEPT !.kind = "not recognized"]

ZeroArray == [s \in Slots |-> 0]
ZeroSecArray == [s \in SecSlots |-> 0]

NoResponder ==
    [pc |-> "none", message |-> NoMessage, return_value |-> NoValue, k |-> 0,
     time_array_copy |-> <<>>, bf_copy |-> 0, wp_copy |-> 0,
     channel_data_copy |-> <<>>,
     time_array_copy_secondary |-> <<>>, bf_copy_secondary |-> <<>>,
     wp_copy_secondary |-> <<>>, channel_data_copy_secondary |-> <<>>]

\* a process the operating system has just started
NewResponder == [NoResponder EXCEPT !.pc = "start"]

SetResponder(r, v) == proc_responder' = [proc_responder EXCEPT ![r] = v]

\* what a responder step leaves alone besides the variables it names
responderFrame == <<configVars, superVars, primaryVars, secondaryVars,
                    message_queue, proc_broker, proc_publisher, proc_receiver,
                    proc_user, published, npulled, nsent, nqueued, npushed, arrivals>>

ReadyFrame(r) == [from |-> r, kind |-> "READY", client |-> 0, payload |-> "READY"]
ReplyFrame(r, c, v) == [from |-> r, kind |-> "REPLY", client |-> c, payload |-> v]

\* a responder that announces itself twice
ResponderReadyTwice(r) ==
    /\ proc_responder[r].pc = "start"
    /\ backend' = Append(Append(backend, ReadyFrame(r)), ReadyFrame(r))
    /\ SetResponder(r, [proc_responder[r] EXCEPT !.pc = "loop"])
    /\ UNCHANGED <<responderFrame, frontend, inbox, replies, lock_primary,
                   lock_secondary>>

\* socket.connect(self.url_backend); socket.send(b"READY")
ResponderReady(r) ==
    /\ proc_responder[r].pc = "start"
    /\ backend' = Append(backend, ReadyFrame(r))
    /\ SetResponder(r, [proc_responder[r] EXCEPT !.pc = "loop"])
    /\ UNCHANGED <<responderFrame, frontend, inbox, replies, lock_primary,
                   lock_secondary>>

\* while self.run_state.value:
ResponderLoop(r) ==
    /\ proc_responder[r].pc = "loop"
    /\ SetResponder(r, [proc_responder[r] EXCEPT
                          !.pc = IF run_state = 1 THEN "receive" ELSE "done"])
    /\ UNCHANGED <<responderFrame, socketVars, lock_primary, lock_secondary>>

\* message = mu.midas_receive_message(socket)   (blocks until a frame comes)
ResponderReceive(r) ==
    /\ proc_responder[r].pc = "receive"
    /\ inbox[r] # <<>>
    /\ inbox' = [inbox EXCEPT ![r] = Tail(inbox[r])]
    /\ SetResponder(r, [proc_responder[r] EXCEPT !.pc = "dispatch",
                                                 !.message = Head(inbox[r])])
    /\ UNCHANGED <<responderFrame, frontend, backend, replies, lock_primary,
                   lock_secondary>>

\* The first statement of analyze_metric and get_data: which snapshot, if any.
AfterDispatch ==
    IF node.primary_node THEN "snapshot"
    ELSE IF node.secondary_data THEN "snapshot_secondary"
    ELSE "reply"

(* ---- metric and data requests ---- *)
\* key = metric.replace(':', '_').replace(',', '_'), with ',' left alone
MetricKeyColonOnly(metric) == Text(Replace(metric, ":", "_"))

\* key = metric.replace(':', '_').replace(',', '_')
MetricKey(metric) == Text(Replace(Replace(metric, ":", "_"), ",", "_"))

Elements(q) == {q[i] : i \in 1..Len(q)}

\* channels = tmp[1]; a list of names if it holds ',', else [channels]
ChannelList(channels) ==
    LET split == IF "," \in Elements(channels) THEN Split(channels, ",")
                                               ELSE <<channels>>
    IN  [i \in 1..Len(split) |-> Text(split[i])]

\* set(channel_names + channel_names_secondary).issuperset(set(channels))
ChannelsFound(tmp) ==
    IF Len(tmp) > 1
    THEN Elements(ChannelList(tmp[2])) \subseteq
             Elements(node.channel_names \o node.channel_names_secondary)
    ELSE FALSE

\* mu.get_channel_index(names, cn)
GetChannelIndex(names, cn) == CHOOSE i \in 1..Len(names) : names[i] = cn

\* mu.get_channel_data: the snapshot data of each named channel, primary
\* before secondary
GetChannelData(channels, v) ==
    [i \in 1..Len(channels) |->
        IF channels[i] \in Elements(node.channel_names)
        THEN v.data[GetChannelIndex(node.channel_names, channels[i])]
        ELSE v.data_secondary[GetChannelIndex(node.channel_names_secondary,
                                              channels[i])]]

\* the strings float() parses, among those the requests hold
Numerals == ("2" :> 2 @@ "10" :> 10)

\* try: tmp[i] = float(tmp[i])  except ValueError: pass
Float(param) ==
    IF Text(param) \in DOMAIN Numerals THEN [float |-> Numerals[Text(param)]]
                                        ELSE [text |-> Text(param)]

\* self.metric_pointers[metric](data, *params): the function's value, or
\* str(err) of the TypeError a wrong number of arguments raises
CallMetric(fn, data, params) ==
    IF 1 + Len(params) = fn.arity
    THEN [value |-> [fn |-> fn.name, data |-> data, params |-> params]]
    ELSE Str("TypeError")

\* analyze_metric, the body of its loop: the result of one specifier
MetricResult(metric, v) ==
    LET tmp == Split(metric, ":")
        name == Text(tmp[1])
        args == Tail(tmp)
        data == GetChannelData(ChannelList(tmp[2]), v)
        params == [i \in 1..(Len(args) - 1) |-> Float(args[i + 1])]
    IN  IF name \in Elements(sup.metric_names) /\ ChannelsFound(tmp)
        THEN CallMetric(sup.metric_pointers[name], data, params)
        ELSE Str("unknown metric and/or channel")

\* analyze_metric, after its snapshots: results[key] = ... for each metric
RECURSIVE AnalyzeMetric(_, _)
AnalyzeMetric(metric_list, v) ==
    IF metric_list = <<>> THEN <<>>
    ELSE LET n == Len(metric_list)
             results == AnalyzeMetric(SubSeq(metric_list, 1, n - 1), v)
             key == MetricKey(metric_list[n])
         IN  [k \in DOMAIN results \cup {key} |->
                 IF k = key THEN MetricResult(metric_list[n], v)
                 ELSE results[k]]

\* get_data, after its snapshots: results[cn] = {'data': ..., 'time': ...}
RECURSIVE GetData(_, _)
GetData(channel_names, v) ==
    IF channel_names = <<>> THEN <<>>
    ELSE LET n == Len(channel_names)
             results == GetData(SubSeq(channel_names, 1, n - 1), v)
             cn == Text(channel_names[n])
             sec == cn \in Elements(node.channel_names_secondary)
             known == cn \in Elements(node.channel_names) \/ sec
             i == IF sec THEN GetChannelIndex(node.channel_names_secondary, cn)
                         ELSE GetChannelIndex(node.channel_names, cn)
         IN  [k \in DOMAIN results \cup (IF known THEN {cn} ELSE {}) |->
                 IF k = cn /\ known
                 THEN IF sec THEN [data |-> v.data_secondary[i],
                                   time |-> v.time_secondary[i]]
                             ELSE [data |-> v.data[i], time |-> v.time]
                 ELSE results[k]]

\* the responder has its snapshots: the loop over the request's parameters
\* gives return_value
Finish(q) ==
    [q EXCEPT !.pc = "reply",
              !.return_value.result =
                  Dict(IF q.message.type = "metric"
                       THEN AnalyzeMetric(q.message.parameters, q.return_value)
                       ELSE GetData(q.message.parameters, q.return_value))]

\* self.url_publisher, as __init__ sets it
UrlPublisher ==
    IF node.run_publisher
    THEN "tcp://" \o node.ip \o ":" \o ToString(node.port_publisher)
    ELSE ""

\* ",".join(names)
RECURSIVE JoinComma(_)
JoinComma(names) ==
    IF names = <<>> THEN ""
    ELSE IF Len(names) = 1 THEN names[1]
    ELSE names[1] \o "," \o JoinComma(Tail(names))

\* get_metric_list()
GetMetricList == sup.metric_descriptions

\* get_nodeinfo(): generate_nodeinfo() reads the ring's full flag
GetNodeinfo ==
    [name |-> node.nodename, primary_node |-> node.primary_node,
     channel_count |-> NChannels,
     channel_names |-> JoinComma(node.channel_names),
     channel_descriptions |-> JoinComma(node.channel_descriptions),
     sampling_rate |-> node.sampling_rate,
     buffer_full |-> buffer_full]

\* get_data_list(): dict(zip(cn, cd)) over primary then secondary channels
GetDataList ==
    DictZip(node.channel_names \o node.channel_names_secondary,
            node.channel_descriptions \o node.channel_descriptions_secondary)

\* an analyze_command that compares the whole command string
AnalyzeCommandWhole(command) ==
    LET name == Text(Join(command))
    IN  CASE name = "get_metric_list" -> Dict(GetMetricList)
          [] name = "get_nodeinfo" -> Dict(GetNodeinfo)
          [] name = "get_publisher" -> Str(UrlPublisher)
          [] name = "get_data_list" -> Dict(GetDataList)
          [] name = "get_topic_list" -> Dict(<<>>)
          [] OTHER -> Str("unknown command")

\* analyze_command(command): the text before the first ':' names the command
AnalyzeCommand(command) ==
    LET tmp == Split(Join(command), ":")
        name == Text(tmp[1])
    IN  CASE name = "get_metric_list" -> Dict(GetMetricList)
          [] name = "get_nodeinfo" -> Dict(GetNodeinfo)
          [] name = "get_publisher" -> Str(UrlPublisher)
          [] name = "get_data_list" -> Dict(GetDataList)
          [] name = "get_topic_list" -> Dict(<<>>)
          [] OTHER -> Str("unknown command")

\* if message['type'] == 'metric': ... elif 'data': ... elif 'command': ...
\* else: return_value = {"error": "not recognized"}.  A key the message
\* lacks raises KeyError, which the loop does not catch.
ResponderDispatch(r) ==
    LET p == proc_responder[r]
        m == p.message
    IN
    /\ p.pc = "dispatch"
    /\ SetResponder(r,
         CASE m.type = "missing" -> [p EXCEPT !.pc = "crashed"]
           [] m.type \in {"metric", "data", "command"} /\ ~m.complete ->
                [p EXCEPT !.pc = "crashed"]
           [] m.type \in {"metric", "data"} /\ m.complete ->
                [p EXCEPT !.pc = AfterDispatch, !.k = 1,
                          !.return_value = [NoValue EXCEPT !.kind = m.type]]
           [] m.type = "command" /\ m.complete ->
                [p EXCEPT !.pc = "reply",
                          !.return_value =
                              [NoValue EXCEPT !.kind = "command",
                                              !.result = AnalyzeCommand(m.command)]]
           [] OTHER -> [p EXCEPT !.pc = "reply", !.return_value = ErrorValue])
    /\ UNCHANGED <<responderFrame, socketVars, lock_primary, lock_secondary>>

\* data_snapshot: self.lock_primary.acquire()
SnapshotAcquire(r) ==
    /\ proc_responder[r].pc = "snapshot"
    /\ lock_primary = Free
    /\ lock_primary' = RespPid(r)
    /\ SetResponder(r, [proc_responder[r] EXCEPT !.pc = "copy_time"])
    /\ UNCHANGED <<responderFrame, socketVars, lock_secondary>>

\* time_array_copy = self.time_array[:]
SnapshotCopyTime(r) ==
    /\ proc_responder[r].pc = "copy_time"
    /\ SetResponder(r, [proc_responder[r] EXCEPT !.pc = "copy_flags",
                                                 !.time_array_copy = time_array])
    /\ UNCHANGED <<responderFrame, socketVars, lock_primary, lock_secondary>>

\* a snapshot that rewinds the ring once it has read its flags
SnapshotCopyFlagsRewind(r) ==
    /\ proc_responder[r].pc = "copy_flags"
    /\ wptr' = 0
    /\ SetResponder(r, [proc_responder[r] EXCEPT !.pc = "copy_data", !.k = 1,
                                                 !.bf_copy = buffer_full,
                                                 !.wp_copy = wptr,
                                                 !.channel_data_copy =
                                                     [c \in Channels |-> <<>>]])
    /\ UNCHANGED <<configVars, superVars, buffer_full, channel_data, time_array,
                   secondaryVars, socketVars, lock_primary, lock_secondary,
                   message_queue, proc_broker, proc_publisher, proc_receiver,
                   proc_user, published, npulled, nsent, nqueued, npushed,
                   arrivals>>

\* bf_copy = self.buffer_full.value; wp_copy = self.wptr.value
SnapshotCopyFlags(r) ==
    /\ proc_responder[r].pc = "copy_flags"
    /\ SetResponder(r, [proc_responder[r] EXCEPT !.pc = "copy_data", !.k = 1,
                                                 !.bf_copy = buffer_full,
                                                 !.wp_copy = wptr,
                                                 !.channel_data_copy =
                                                     [c \in Channels |-> <<>>]])
    /\ UNCHANGED <<responderFrame, socketVars, lock_primary, lock_secondary>>

\* for i in range(self.n_channels): channel_data_copy[i] = self.channel_data[i][:]
SnapshotCopyData(r) ==
    LET p == proc_responder[r] IN
    /\ p.pc = "copy_data"
    /\ SetResponder(r, [p EXCEPT
          !.channel_data_copy[p.k] = channel_data[p.k],
          !.k = p.k + 1,
          !.pc = IF p.k = NChannels THEN "release" ELSE "copy_data"])
    /\ UNCHANGED <<responderFrame, socketVars, lock_primary, lock_secondary>>

\* self.lock_primary.release()
SnapshotRelease(r) ==
    /\ proc_responder[r].pc = "release"
    /\ lock_primary' = Free
    /\ SetResponder(r, [proc_responder[r] EXCEPT !.pc = "unwrap"])
    /\ UNCHANGED <<responderFrame, socketVars, lock_secondary>>

\* The rest of data_snapshot, on the copies: unwrap, ages, window, slices.
\* time_array_copy[-1] raises IndexError when the index vector is empty.
\* timewindow[1] = timewindow[0] - timewindow[1] rewrites the request's list.
SnapshotUnwrap(r) ==
    LET p == proc_responder[r]
        ind == GetIndexVector(node.buffer_size, p.bf_copy, p.wp_copy)
        ages == AgeVector(Reindex(p.time_array_copy, ind))
        win == <<p.message.timewindow[1],
                 p.message.timewindow[1] - p.message.timewindow[2]>>
        range == FindRange(ages, win)
    IN
    /\ p.pc = "unwrap"
    /\ SetResponder(r,
         IF ind = <<>> THEN [p EXCEPT !.pc = "crashed"]
         ELSE LET q == [p EXCEPT
                          !.pc = "snapshot_secondary",
                          !.k = 1,
                          !.message.timewindow = win,
                          !.return_value.time = Slice(ages, range),
                          !.return_value.data =
                              [c \in Channels |->
                                 Slice(Reindex(p.channel_data_copy[c], ind),
                                       range)]]
              IN  IF node.secondary_data THEN q ELSE Finish(q))
    /\ UNCHANGED <<responderFrame, socketVars, lock_primary, lock_secondary>>

(* -------------------------- secondary rings --------------------------- *)
\* A snapshot that takes the first channel's lock only.
SecondaryAcquireFirstOnly(r) ==
    LET p == proc_responder[r] IN
    /\ p.pc = "snapshot_secondary"
    /\ lock_secondary[1] = Free
    /\ lock_secondary' = [lock_secondary EXCEPT ![1] = RespPid(r)]
    /\ SetResponder(r, [p EXCEPT
          !.k = 1,
          !.pc = "copy_data_secondary",
          !.channel_data_copy_secondary = [c \in SecChannels |-> <<>>],
          !.time_array_copy_secondary = [c \in SecChannels |-> <<>>]])
    /\ UNCHANGED <<responderFrame, socketVars, lock_primary>>

\* data_snapshot_secondary: [lock.acquire() for lock in self.lock_secondary]
SecondaryAcquire(r) ==
    LET p == proc_responder[r] IN
    /\ p.pc = "snapshot_secondary"
    /\ lock_secondary[p.k] = Free
    /\ lock_secondary' = [lock_secondary EXCEPT ![p.k] = RespPid(r)]
    /\ SetResponder(r, [p EXCEPT
          !.k = IF p.k = NSecondary THEN 1 ELSE p.k + 1,
          !.pc = IF p.k = NSecondary THEN "copy_data_secondary"
                                     ELSE "snapshot_secondary",
          !.channel_data_copy_secondary = [c \in SecChannels |-> <<>>],
          !.time_array_copy_secondary = [c \in SecChannels |-> <<>>]])
    /\ UNCHANGED <<responderFrame, socketVars, lock_primary>>

\* for i ...: channel_data_copy[i] = self.channel_data_secondary[i][:]
SecondaryCopyData(r) ==
    LET p == proc_responder[r] IN
    /\ p.pc = "copy_data_secondary"
    /\ SetResponder(r, [p EXCEPT
          !.channel_data_copy_secondary[p.k] = channel_data_secondary[p.k],
          !.k = IF p.k = NSecondary THEN 1 ELSE p.k + 1,
          !.pc = IF p.k = NSecondary THEN "copy_time_secondary"
                                     ELSE "copy_data_secondary"])
    /\ UNCHANGED <<responderFrame, socketVars, lock_primary, lock_secondary>>

\* for i ...: time_array_copy[i] = self.time_array_secondary[i][:]
SecondaryCopyTime(r) ==
    LET p == proc_responder[r] IN
    /\ p.pc = "copy_time_secondary"
    /\ SetResponder(r, [p EXCEPT
          !.time_array_copy_secondary[p.k] = time_array_secondary[p.k],
          !.k = IF p.k = NSecondary THEN 1 ELSE p.k + 1,
          !.pc = IF p.k = NSecondary THEN "copy_flags_secondary"
                                     ELSE "copy_time_secondary"])
    /\ UNCHANGED <<responderFrame, socketVars, lock_primary, lock_secondary>>

\* wp_copy = self.wptr_secondary[:]; bf_copy = self.buffer_full_secondary[:]
SecondaryCopyFlags(r) ==
    LET p == proc_responder[r] IN
    /\ p.pc = "copy_flags_secondary"
    /\ SetResponder(r, [p EXCEPT !.wp_copy_secondary = wptr_secondary,
                                 !.bf_copy_secondary = buffer_full_secondary,
                                 !.k = 1,
                                 !.pc = "release_secondary"])
    /\ UNCHANGED <<responderFrame, socketVars, lock_primary, lock_secondary>>

\* [lock.release() for lock in self.lock_secondary]
SecondaryRelease(r) ==
    LET p == proc_responder[r] IN
    /\ p.pc = "release_secondary"
    /\ lock_secondary' = [lock_secondary EXCEPT ![p.k] = Free]
    /\ SetResponder(r, [p EXCEPT
          !.k = IF p.k = NSecondary THEN 1 ELSE p.k + 1,
          !.pc = IF p.k = NSecondary THEN "unwrap_secondary"
                                     ELSE "release_secondary"])
    /\ UNCHANGED <<responderFrame, socketVars, lock_primary>>

\* The per-channel loop of data_snapshot_secondary on the copies; the window
\* is the request's list as data_snapshot left it.
SecondaryUnwrap(r) ==
    LET p == proc_responder[r]
        ind(c) == GetIndexVector(node.buffer_size_secondary,
                                 p.bf_copy_secondary[c], p.wp_copy_secondary[c])
        ages(c) == AgeVector(Reindex(p.time_array_copy_secondary[c], ind(c)))
        range(c) == FindRange(ages(c), p.message.timewindow)
    IN
    /\ p.pc = "unwrap_secondary"
    /\ SetResponder(r,
         IF \E c \in SecChannels : ind(c) = <<>> THEN [p EXCEPT !.pc = "crashed"]
         ELSE Finish([p EXCEPT
                 !.return_value.time_secondary =
                     [c \in SecChannels |-> Slice(ages(c), range(c))],
                 !.return_value.data_secondary =
                     [c \in SecChannels |->
                        Slice(Reindex(p.channel_data_copy_secondary[c], ind(c)),
                              range(c))]]))
    /\ UNCHANGED <<responderFrame, socketVars, lock_primary, lock_secondary>>

\* mu.midas_send_reply(socket, message['address'], return_value)
ResponderReply(r) ==
    LET p == proc_responder[r] IN
    /\ p.pc = "reply"
    /\ backend' = Append(backend,
                         ReplyFrame(r, p.message.client, p.return_value.kind))
    /\ SetResponder(r, [NoResponder EXCEPT !.pc = "loop"])
    /\ UNCHANGED <<responderFrame, frontend, inbox, replies, lock_primary,
                   lock_secondary>>

Responder(r) ==
    \/ ResponderReady(r)
    \/ ResponderLoop(r)
    \/ ResponderReceive(r)
    \/ ResponderDispatch(r)
    \/ ResponderReply(r)

PrimarySnapshot(r) ==
    \/ SnapshotAcquire(r)
    \/ SnapshotCopyTime(r)
    \/ SnapshotCopyFlags(r)
    \/ SnapshotCopyData(r)
    \/ SnapshotRelease(r)
    \/ SnapshotUnwrap(r)

SecondarySnapshot(r) ==
    \/ SecondaryAcquire(r)
    \/ SecondaryCopyData(r)
    \/ SecondaryCopyTime(r)
    \/ SecondaryCopyFlags(r)
    \/ SecondaryRelease(r)
    \/ SecondaryUnwrap(r)

(* ---------------------------- user workers ----------------------------- *)
\* A user-defined process; the one started as number c writes channel c.
NoUser == [pc |-> "none", chunk |-> <<>>]
NewUser == [NoUser EXCEPT !.pc = "idle"]

SetUser(u, v) == proc_user' = [proc_user EXCEPT ![u] = v]

userFrame == <<configVars, superVars, primaryVars, socketVars, lock_primary,
               proc_broker, proc_publisher, proc_receiver, proc_responder,
               published, npulled, nsent, arrivals>>

\* The n-th sample pushed to channel c: timestamp n, value 10 n + c.
PushedSample(c, n) == [t |-> n, v |-> 10 * n + c]

ChannelState(c) ==
    [data |-> channel_data_secondary[c], time |-> time_array_secondary[c],
     w |-> wptr_secondary[c], full |-> buffer_full_secondary[c]]

\* A push that tests for a full ring after reducing the write index.
PushBodyFlagAfterModulo(c, sample) ==
    LET w == wptr_secondary[c]
        w1 == (w + 1) % node.buffer_size_secondary
    IN
    /\ channel_data_secondary' =
           [channel_data_secondary EXCEPT ![c][w] = sample.v]
    /\ time_array_secondary' = [time_array_secondary EXCEPT ![c][w] = sample.t]
    /\ buffer_full_secondary' =
           IF buffer_full_secondary[c] = 0 /\ w1 >= node.buffer_size_secondary
           THEN [buffer_full_secondary EXCEPT ![c] = 1]
           ELSE buffer_full_secondary
    /\ wptr_secondary' = [wptr_secondary EXCEPT ![c] = w1]

\* The body of push_sample_secondary between its acquire and its release.
PushBody(c, sample) ==
    LET w == wptr_secondary[c]
        w1 == w + 1
    IN
    /\ channel_data_secondary' =
           [channel_data_secondary EXCEPT ![c][w] = sample.v]
    /\ time_array_secondary' = [time_array_secondary EXCEPT ![c][w] = sample.t]
    /\ buffer_full_secondary' =
           IF buffer_full_secondary[c] = 0 /\ w1 >= node.buffer_size_secondary
           THEN [buffer_full_secondary EXCEPT ![c] = 1]
           ELSE buffer_full_secondary
    /\ wptr_secondary' =
           [wptr_secondary EXCEPT ![c] = w1 % node.buffer_size_secondary]

\* a call push_sample_secondary(c, t, v) with use_lock=True begins
UserPushSample(u) ==
    LET c == u[2] IN
    /\ proc_user[u].pc = "idle"
    /\ node.secondary_data
    /\ npushed[c] < env.pushes
    /\ npushed' = [npushed EXCEPT ![c] = npushed[c] + 1]
    /\ SetUser(u, [pc |-> "sample_acquire",
                   chunk |-> <<PushedSample(c, npushed[c] + 1)>>])
    /\ UNCHANGED <<userFrame, secondaryVars, lock_secondary, message_queue,
                   nqueued>>

\* if use_lock: self.lock_secondary[ch].acquire()
SampleAcquire(u) ==
    LET c == u[2] IN
    /\ proc_user[u].pc = "sample_acquire"
    /\ lock_secondary[c] = Free
    /\ lock_secondary' = [lock_secondary EXCEPT ![c] = UserPid(u)]
    /\ SetUser(u, [proc_user[u] EXCEPT !.pc = "sample_body"])
    /\ UNCHANGED <<userFrame, secondaryVars, message_queue, nqueued, npushed>>

\* the writes of push_sample_secondary
SampleBody(u) ==
    LET c == u[2] IN
    /\ proc_user[u].pc = "sample_body"
    /\ PushBody(c, Head(proc_user[u].chunk))
    /\ committed' = [committed EXCEPT ![c] = @ \cup {ChannelState(c)'}]
    /\ SetUser(u, [pc |-> "sample_release", chunk |-> <<>>])
    /\ UNCHANGED <<userFrame, lock_secondary, message_queue, nqueued, npushed>>

\* if use_lock: self.lock_secondary[ch].release()
SampleRelease(u) ==
    LET c == u[2] IN
    /\ proc_user[u].pc = "sample_release"
    /\ lock_secondary' = [lock_secondary EXCEPT ![c] = Free]
    /\ SetUser(u, [proc_user[u] EXCEPT !.pc = "idle"])
    /\ UNCHANGED <<userFrame, secondaryVars, message_queue, nqueued, npushed>>

\* a call push_chunk_secondary(c, timeps, values) with m pairs begins
UserPushChunk(u, m) ==
    LET c == u[2] IN
    /\ proc_user[u].pc = "idle"
    /\ node.secondary_data
    /\ npushed[c] + m <= env.pushes
    /\ npushed' = [npushed EXCEPT ![c] = npushed[c] + m]
    /\ SetUser(u, [pc |-> "chunk_acquire",
                   chunk |-> [j \in 1..m |-> PushedSample(c, npushed[c] + j)]])
    /\ UNCHANGED <<userFrame, secondaryVars, lock_secondary, message_queue,
                   nqueued>>

\* A chunk step without the lock: what push_chunk_secondary would be
\* without its acquire.
ChunkAcquireNoLock(u) ==
    /\ proc_user[u].pc = "chunk_acquire"
    /\ SetUser(u, [proc_user[u] EXCEPT !.pc = "chunk_body"])
    /\ UNCHANGED <<userFrame, secondaryVars, lock_secondary, message_queue,
                   nqueued, npushed>>

\* push_chunk_secondary: self.lock_secondary[ch].acquire()
ChunkAcquire(u) ==
    LET c == u[2] IN
    /\ proc_user[u].pc = "chunk_acquire"
    /\ lock_secondary[c] = Free
    /\ lock_secondary' = [lock_secondary EXCEPT ![c] = UserPid(u)]
    /\ SetUser(u, [proc_user[u] EXCEPT !.pc = "chunk_body"])
    /\ UNCHANGED <<userFrame, secondaryVars, message_queue, nqueued, npushed>>

\* for t, v in zip(timeps, values):
\*     self.push_sample_secondary(ch, t, v, use_lock=False)
ChunkBody(u) ==
    LET c == u[2]
        p == proc_user[u]
    IN
    /\ p.pc = "chunk_body"
    /\ PushBody(c, Head(p.chunk))
    /\ committed' = IF Len(p.chunk) = 1
                    THEN [committed EXCEPT ![c] = @ \cup {ChannelState(c)'}]
                    ELSE committed
    /\ SetUser(u, [pc |-> IF Len(p.chunk) = 1 THEN "chunk_release"
                                              ELSE "chunk_body",
                   chunk |-> Tail(p.chunk)])
    /\ UNCHANGED <<userFrame, lock_secondary, message_queue, nqueued, npushed>>

\* push_chunk_secondary: self.lock_secondary[ch].release()
ChunkRelease(u) ==
    LET c == u[2] IN
    /\ proc_user[u].pc = "chunk_release"
    /\ lock_secondary' = [lock_secondary EXCEPT ![c] = Free]
    /\ SetUser(u, [proc_user[u] EXCEPT !.pc = "idle"])
    /\ UNCHANGED <<userFrame, secondaryVars, message_queue, nqueued, npushed>>

UserPush(u) ==
    \/ UserPushSample(u)
    \/ SampleAcquire(u)
    \/ SampleBody(u)
    \/ SampleRelease(u)
    \/ \E m \in 1..MaxChunk : UserPushChunk(u, m)
    \/ ChunkAcquire(u)
    \/ ChunkBody(u)
    \/ ChunkRelease(u)

(* ------------------------------ get_sample ----------------------------- *)
\* The number of the stream sample whose append is the first to complete
\* from now on: the one the receiver is writing, or else the next one pulled.
FirstAppendNext ==
    IF \E g \in Gens : proc_receiver[g].pc \in {"acquire", "write", "time", "advance"}
    THEN npulled
    ELSE NextSample

\* get_sample() called in a user process: wpc = self.wptr.value
GetSampleBegin(u) ==
    /\ proc_user[u].pc = "idle"
    /\ node.primary_node
    /\ SetUser(u, [pc |-> "get_sample_wait", chunk |-> <<>>, wpc |-> wptr,
                   k |-> 1, sample |-> <<>>, first |-> FirstAppendNext])
    /\ UNCHANGED <<userFrame, secondaryVars, lock_secondary, message_queue,
                   nqueued, npushed>>

\* while self.wptr.value == wpc: pass
GetSampleWait(u) ==
    LET p == proc_user[u] IN
    /\ p.pc = "get_sample_wait"
    /\ SetUser(u, [p EXCEPT !.pc = IF wptr = p.wpc THEN "get_sample_wait"
                                                   ELSE "get_sample_read"])
    /\ UNCHANGED <<userFrame, secondaryVars, lock_secondary, message_queue,
                   nqueued, npushed>>

\* [self.channel_data[i][wpc] for i in range(self.n_channels)], one element
GetSampleRead(u) ==
    LET p == proc_user[u] IN
    /\ p.pc = "get_sample_read"
    /\ SetUser(u, [p EXCEPT
          !.sample = Append(@, channel_data[p.k][p.wpc]),
          !.k = p.k + 1,
          !.pc = IF p.k = NChannels THEN "get_sample_return"
                                    ELSE "get_sample_read"])
    /\ UNCHANGED <<userFrame, secondaryVars, lock_secondary, message_queue,
                   nqueued, npushed>>

\* return [...]: the caller has the vector
GetSampleReturn(u) ==
    /\ proc_user[u].pc = "get_sample_return"
    /\ SetUser(u, NewUser)
    /\ UNCHANGED <<userFrame, secondaryVars, lock_secondary, message_queue,
                   nqueued, npushed>>

GetSample(u) ==
    \/ GetSampleBegin(u)
    \/ GetSampleWait(u)
    \/ GetSampleRead(u)
    \/ GetSampleReturn(u)

(* ------------------------------ publisher ------------------------------ *)
publisherFrame == <<configVars, superVars, primaryVars, secondaryVars,
                    socketVars, lock_primary, lock_secondary, proc_broker,
                    proc_receiver, proc_responder, proc_user, npulled, nsent,
                    nqueued, npushed, arrivals>>

SetPublisher(g, pc) == proc_publisher' = [proc_publisher EXCEPT ![g] = pc]

\* mp.Queue(10): a semaphore counting the queued messages, the buffer each
\* producer process fills for its feeder thread, and the pipe the feeders write.
EmptyQueue == [sem |-> 0, buffer |-> [u \in UIds |-> <<>>], pipe |-> <<>>]

\* The payload a user process enqueues: which process put it, and as which put.
Payload(u, n) == [producer |-> u, n |-> n]

\* Every payload put so far: emitted, in the pipe, or in a producer's buffer.
Range(s) == {s[i] : i \in DOMAIN s}
Enqueued ==
    {m[3] : m \in Range(published)} \cup Range(message_queue.pipe)
        \cup UNION {Range(message_queue.buffer[u]) : u \in UIds}
PutsOf(u) == Cardinality({p \in Enqueued : p.producer = u})

\* self.message_queue.put(payload) in a user process: blocks while 10 are queued
UserPut(u) ==
    /\ proc_user[u].pc = "idle"
    /\ node.run_publisher
    /\ nqueued < MaxMessages
    /\ PutsOf(u) < env.puts[u[2]]
    /\ message_queue.sem < QueueCapacity
    /\ message_queue' = [message_queue EXCEPT
            !.sem = @ + 1,
            !.buffer[u] = Append(@, Payload(u, nqueued + 1))]
    /\ nqueued' = nqueued + 1
    /\ UNCHANGED <<userFrame, secondaryVars, lock_secondary, proc_user, npushed>>

\* The feeder thread of the producer's process writes its oldest buffered
\* payload to the pipe of the queue.
UserFeed(u) ==
    /\ proc_user[u].pc # "none"
    /\ message_queue.buffer[u] # <<>>
    /\ message_queue' = [message_queue EXCEPT
            !.buffer[u] = Tail(@),
            !.pipe = Append(@, Head(message_queue.buffer[u]))]
    /\ UNCHANGED <<userFrame, secondaryVars, lock_secondary, proc_user, npushed,
                   nqueued>>

\* socket.connect(self.url_publisher)
PublisherConnect(g) ==
    /\ proc_publisher[g] = "start"
    /\ SetPublisher(g, "loop")
    /\ UNCHANGED <<publisherFrame, message_queue, published>>

\* while self.run_state.value:
PublisherLoop(g) ==
    /\ proc_publisher[g] = "loop"
    /\ SetPublisher(g, IF run_state = 1 THEN "check" ELSE "done")
    /\ UNCHANGED <<publisherFrame, message_queue, published>>

\* if not self.message_queue.empty(): ... else: time.sleep(0.0001)
PublisherCheck(g) ==
    /\ proc_publisher[g] = "check"
    /\ SetPublisher(g, IF message_queue.pipe # <<>> THEN "get" ELSE "loop")
    /\ UNCHANGED <<publisherFrame, message_queue, published>>

\* A publisher whose get() takes the payload written to the pipe last.
PublisherSendNewest(g) ==
    /\ proc_publisher[g] = "get"
    /\ message_queue.pipe # <<>>
    /\ published' = Append(published,
           <<node.nodename, ";", message_queue.pipe[Len(message_queue.pipe)]>>)
    /\ message_queue' = [message_queue EXCEPT
            !.sem = @ - 1, !.pipe = SubSeq(@, 1, Len(@) - 1)]
    /\ SetPublisher(g, "loop")
    /\ UNCHANGED publisherFrame

\* socket.send_string("%s;%s" % (self.nodename, self.message_queue.get()))
PublisherSend(g) ==
    /\ proc_publisher[g] = "get"
    /\ message_queue.pipe # <<>>
    /\ published' = Append(published,
                           <<node.nodename, ";", Head(message_queue.pipe)>>)
    /\ message_queue' = [message_queue EXCEPT !.sem = @ - 1, !.pipe = Tail(@)]
    /\ SetPublisher(g, "loop")
    /\ UNCHANGED publisherFrame

Publisher(g) ==
    \/ PublisherConnect(g)
    \/ PublisherLoop(g)
    \/ PublisherCheck(g)
    \/ PublisherSend(g)

(* ------------------------- clients and broker -------------------------- *)
Dead == {"none", "done", "crashed", "terminated", "failed"}

brokerFrame == <<configVars, superVars, primaryVars, secondaryVars,
                 lock_primary, lock_secondary, message_queue, proc_publisher,
                 proc_receiver, proc_responder, proc_user, published, npulled,
                 nqueued, npushed, arrivals>>

NoBroker == [pc |-> "none", workers |-> <<>>]
NewBroker == [NoBroker EXCEPT !.pc = "start"]

SetBroker(g, b) == proc_broker' = [proc_broker EXCEPT ![g] = b]

\* The time windows [end_offset, duration] clients ask for.
TimeWindows == env.timewindows

\* A client sends one request to the front-facing endpoint.
ClientSend ==
    /\ nsent < env.max_requests
    /\ \E type \in env.request_types, complete \in env.request_complete,
          tw \in TimeWindows :
         \E parameters \in IF type \in {"metric", "data"} THEN env.parameters
                                                           ELSE {<<>>},
            command \in IF type = "command" THEN env.commands ELSE {<<>>} :
           frontend' = Append(frontend,
                              [client |-> nsent + 1, type |-> type,
                               complete |-> complete, timewindow |-> tw,
                               parameters |-> parameters, command |-> command])
    /\ nsent' = nsent + 1
    /\ UNCHANGED <<brokerFrame, proc_broker, backend, inbox, replies>>

\* mu.LRU_queue_broker binds its two sockets; a second broker of the same
\* node finds the addresses in use.
BrokerBind(g) ==
    /\ proc_broker[g].pc = "start"
    /\ SetBroker(g, [proc_broker[g] EXCEPT !.pc =
          IF \E h \in Gens : proc_broker[h].pc \in {"loop", "poll"}
          THEN "failed" ELSE "loop"])
    /\ UNCHANGED <<brokerFrame, nsent, socketVars>>

\* the broker's loop runs while the run-flag is set
BrokerLoop(g) ==
    /\ proc_broker[g].pc = "loop"
    /\ SetBroker(g, [proc_broker[g] EXCEPT
                       !.pc = IF run_state = 1 THEN "poll" ELSE "done"])
    /\ UNCHANGED <<brokerFrame, nsent, socketVars>>

\* A frame from a responder: the responder joins the idle queue, and a
\* reply is routed to the client it is addressed to.
BrokerBackend(g) ==
    LET b == proc_broker[g]
        f == Head(backend)
    IN
    /\ b.pc = "poll"
    /\ backend # <<>>
    /\ backend' = Tail(backend)
    /\ SetBroker(g, [b EXCEPT !.pc = "loop", !.workers = Append(b.workers, f.from)])
    /\ replies' = IF f.kind = "REPLY"
                  THEN [replies EXCEPT ![f.client] = Append(@, f.payload)]
                  ELSE replies
    /\ UNCHANGED <<brokerFrame, nsent, frontend, inbox>>

\* a broker that hands a request to the responder that became idle last
BrokerFrontendLast(g) ==
    LET b == proc_broker[g]
        n == Len(b.workers)
    IN
    /\ b.pc = "poll"
    /\ b.workers # <<>>
    /\ frontend # <<>>
    /\ frontend' = Tail(frontend)
    /\ inbox' = [inbox EXCEPT ![b.workers[n]] = Append(@, Head(frontend))]
    /\ SetBroker(g, [b EXCEPT !.pc = "loop",
                              !.workers = SubSeq(b.workers, 1, n - 1)])
    /\ UNCHANGED <<brokerFrame, nsent, backend, replies>>

\* A client request, taken only while a responder is idle, goes to the
\* head of the idle queue.
BrokerFrontend(g) ==
    LET b == proc_broker[g]
        w == Head(b.workers)
    IN
    /\ b.pc = "poll"
    /\ b.workers # <<>>
    /\ frontend # <<>>
    /\ frontend' = Tail(frontend)
    /\ inbox' = [inbox EXCEPT ![w] = Append(@, Head(frontend))]
    /\ SetBroker(g, [b EXCEPT !.pc = "loop",
                              !.workers = Tail(b.workers)])
    /\ UNCHANGED <<brokerFrame, nsent, backend, replies>>

\* the poll timed out with nothing to route
BrokerIdle(g) ==
    LET b == proc_broker[g] IN
    /\ b.pc = "poll"
    /\ backend = <<>>
    /\ b.workers = <<>> \/ frontend = <<>>
    /\ SetBroker(g, [b EXCEPT !.pc = "loop"])
    /\ UNCHANGED <<brokerFrame, nsent, socketVars>>

Broker(g) ==
    \/ BrokerBind(g)
    \/ BrokerLoop(g)
    \/ BrokerBackend(g)
    \/ BrokerFrontend(g)
    \/ BrokerIdle(g)

(* ----------------------------- supervisor ------------------------------ *)
\* The process that owns the node object and calls start() and stop().
\* sup.gen counts the calls of start(): the handles self.proc_broker,
\* self.proc_receiver, ... are those of the latest call.
superFrame == <<configVars, primaryVars, secondaryVars, socketVars,
                lock_primary, lock_secondary, message_queue, published,
                npulled, nsent, nqueued, npushed, arrivals>>

Alive(pc) == pc \notin Dead

\* The process tables after start() has launched generation g.
Launched(g) ==
    /\ proc_broker' = [proc_broker EXCEPT ![g] = NewBroker]
    /\ proc_publisher' = IF node.run_publisher
                         THEN [proc_publisher EXCEPT ![g] = "start"]
                         ELSE proc_publisher
    /\ proc_receiver' = IF node.primary_node
                        THEN [proc_receiver EXCEPT ![g] =
                                 [NoReceiver EXCEPT !.pc = "resolve"]]
                        ELSE proc_receiver
    /\ proc_responder' = [r \in RIds |->
                            IF r[1] = g /\ r[2] <= node.n_workers
                            THEN NewResponder ELSE proc_responder[r]]
    /\ proc_user' = [u \in UIds |->
                       IF u[1] = g /\ u[2] <= node.n_user
                       THEN NewUser ELSE proc_user[u]]

\* start(), up to its last launch: self.run_state.value = 1;
\* generate_metric_lists(); self.beacon = mu.Beacon(...); then the broker,
\* the publisher if configured, the receiver on a primary node, the
\* n_workers responders and the user processes are started, in this order.
\* Nothing start() writes after its first line is read by a process it has
\* launched, so the launches are one step.  A caller that env.double_start
\* excludes calls start() only on a node that is not running.
StartLaunch ==
    /\ sup.pc = "idle"
    /\ sup.gen < MaxStarts
    /\ env.double_start \/ run_state = 0
    /\ \A i \in 1..Len(node.metric_functions) :
          node.metric_functions[i].doc # NoDoc
    /\ run_state' = 1
    /\ beacon' = "created"
    /\ Launched(sup.gen + 1)
    /\ sup' = [sup EXCEPT
                 !.pc = "beacon_online", !.gen = sup.gen + 1,
                 !.metric_names = MetricNames(node.metric_functions),
                 !.metric_descriptions = MetricDescriptions(node.metric_functions),
                 !.metric_pointers = MetricPointers(node.metric_functions)]
    /\ UNCHANGED superFrame

\* start() on a registry holding a function without a docstring:
\* self.run_state.value = 1, then generate_metric_lists assigns
\* metric_names and raises AttributeError on m.__doc__.split; the caller
\* gets the exception and nothing has been launched.
StartRaise ==
    /\ sup.pc = "idle"
    /\ env.double_start \/ run_state = 0
    /\ \E i \in 1..Len(node.metric_functions) :
          node.metric_functions[i].doc = NoDoc
    /\ run_state' = 1
    /\ sup' = [sup EXCEPT !.metric_names = MetricNames(node.metric_functions)]
    /\ UNCHANGED <<superFrame, beacon, proc_broker, proc_publisher,
                   proc_receiver, proc_responder, proc_user>>

\* self.beacon.set_status('online'); self.beacon.start(); time.sleep(5)
StartOnline ==
    /\ sup.pc = "beacon_online"
    /\ beacon' = "online"
    /\ sup' = [sup EXCEPT !.pc = "idle"]
    /\ UNCHANGED <<superFrame, run_state, proc_broker, proc_publisher,
                   proc_receiver, proc_responder, proc_user>>

\* a stop() that clears the run-flag and leaves the beacon's status alone
StopBeginClearFlag ==
    /\ sup.pc = "idle"
    /\ run_state = 1
    /\ run_state' = 0
    /\ sup' = [sup EXCEPT !.pc = "stop_clear"]
    /\ UNCHANGED <<superFrame, beacon, proc_broker, proc_publisher,
                   proc_receiver, proc_responder, proc_user>>

\* stop(): if self.run_state.value: self.beacon.set_status('offline')
StopBegin ==
    /\ sup.pc = "idle"
    /\ run_state = 1
    /\ beacon' = "offline"
    /\ sup' = [sup EXCEPT !.pc = "stop_clear"]
    /\ UNCHANGED <<superFrame, run_state, proc_broker, proc_publisher,
                   proc_receiver, proc_responder, proc_user>>

\* a stop() that does not test the run-flag
StopAnyway ==
    /\ sup.pc = "idle"
    /\ run_state = 0
    /\ beacon' = "offline"
    /\ sup' = [sup EXCEPT !.pc = "stop_clear"]
    /\ UNCHANGED <<superFrame, run_state, proc_broker, proc_publisher,
                   proc_receiver, proc_responder, proc_user>>

\* stop(): else: print("Node '%s' is not running." % self.nodename)
StopNotRunning ==
    /\ sup.pc = "idle"
    /\ run_state = 0
    /\ sup' = [sup EXCEPT !.pc = "not_running"]
    /\ UNCHANGED <<superFrame, beacon, run_state, proc_broker, proc_publisher,
                   proc_receiver, proc_responder, proc_user>>

\* stop() on a node that is not running returns:
\* print("Node '%s' is now offline." % self.nodename)
StopReturn ==
    /\ sup.pc = "not_running"
    /\ sup' = [sup EXCEPT !.pc = "idle"]
    /\ UNCHANGED <<superFrame, beacon, run_state, proc_broker, proc_publisher,
                   proc_receiver, proc_responder, proc_user>>

\* self.run_state.value = 0
StopClear ==
    /\ sup.pc = "stop_clear"
    /\ run_state' = 0
    /\ sup' = [sup EXCEPT !.pc = "stop_responders", !.k = 1]
    /\ UNCHANGED <<superFrame, beacon, proc_broker, proc_publisher,
                   proc_receiver, proc_responder, proc_user>>

\* Process.terminate(): the process dies where it stands, and its locals
\* with it; blank is the process table's entry for no process
Terminate(p, blank) ==
    IF Alive(p.pc) THEN [blank EXCEPT !.pc = "terminated"] ELSE p

\* for i in self.proc_responder_list: i.terminate()
StopResponder ==
    LET r == <<sup.gen, sup.k>> IN
    /\ sup.pc = "stop_responders"
    /\ proc_responder' = [proc_responder EXCEPT ![r] = Terminate(@, NoResponder)]
    /\ sup' = IF sup.k < node.n_workers
              THEN [sup EXCEPT !.k = sup.k + 1]
              ELSE [sup EXCEPT !.k = 1,
                               !.pc = IF node.n_user > 0 THEN "stop_users"
                                                         ELSE "join_broker"]
    /\ UNCHANGED <<superFrame, beacon, run_state, proc_broker, proc_publisher,
                   proc_receiver, proc_user>>

\* for i in self.proc_user_list: i.terminate()
StopUser ==
    LET u == <<sup.gen, sup.k>> IN
    /\ sup.pc = "stop_users"
    /\ proc_user' = [proc_user EXCEPT ![u] = Terminate(@, NoUser)]
    /\ sup' = IF sup.k < node.n_user
              THEN [sup EXCEPT !.k = sup.k + 1]
              ELSE [sup EXCEPT !.k = 1, !.pc = "join_broker"]
    /\ UNCHANGED <<superFrame, beacon, run_state, proc_broker, proc_publisher,
                   proc_receiver, proc_responder>>

\* self.proc_broker.join()
JoinBroker ==
    /\ sup.pc = "join_broker"
    /\ ~Alive(proc_broker[sup.gen].pc)
    /\ sup' = [sup EXCEPT !.pc = "join_receiver"]
    /\ UNCHANGED <<superFrame, beacon, run_state, proc_broker, proc_publisher,
                   proc_receiver, proc_responder, proc_user>>

\* if self.primary_node: self.proc_receiver.join()
JoinReceiver ==
    /\ sup.pc = "join_receiver"
    /\ node.primary_node => ~Alive(proc_receiver[sup.gen].pc)
    /\ sup' = [sup EXCEPT !.pc = "join_publisher"]
    /\ UNCHANGED <<superFrame, beacon, run_state, proc_broker, proc_publisher,
                   proc_receiver, proc_responder, proc_user>>

\* if self.run_publisher: self.proc_publisher.join()
JoinPublisher ==
    /\ sup.pc = "join_publisher"
    /\ node.run_publisher => ~Alive(proc_publisher[sup.gen])
    /\ sup' = [sup EXCEPT !.pc = "beacon_stop"]
    /\ UNCHANGED <<superFrame, beacon, run_state, proc_broker, proc_publisher,
                   proc_receiver, proc_responder, proc_user>>

\* self.beacon.stop()
StopBeacon ==
    /\ sup.pc = "beacon_stop"
    /\ beacon' = "stopped"
    /\ sup' = [sup EXCEPT !.pc = "idle"]
    /\ UNCHANGED <<superFrame, run_state, proc_broker, proc_publisher,
                   proc_receiver, proc_responder, proc_user>>

Start ==
    \/ StartLaunch
    \/ StartOnline

Stop ==
    \/ StopBegin
    \/ StopNotRunning
    \/ StopReturn
    \/ StopClear
    \/ StopResponder
    \/ StopUser
    \/ JoinBroker
    \/ JoinReceiver
    \/ JoinPublisher
    \/ StopBeacon

\* the external stream comes up
StreamOnline ==
    /\ ~stream_online
    /\ stream_online' = TRUE
    /\ UNCHANGED <<node, env, superVars, primaryVars, secondaryVars, socketVars,
                   lock_primary, lock_secondary, message_queue, proc_broker,
                   proc_publisher, proc_receiver, proc_responder, proc_user,
                   published, npulled, nsent, nqueued, npushed, arrivals>>

(* --------------------------- initial states ---------------------------- *)
MaxClients == Max(MaxRequests, MaxRequestsBroker)

\* The primary ring as __init__ leaves it: zeroed, nothing pulled.
ConstructedRing(cfg) ==
    /\ wptr = 0
    /\ buffer_full = 0
    /\ channel_data = [c \in Channels |-> [s \in 0..(cfg.buffer_size - 1) |-> 0]]
    /\ time_array = [s \in 0..(cfg.buffer_size - 1) |-> 0]
    /\ npulled = 0
    /\ arrivals = <<>>

\* The rest of the node object as __init__ leaves it.
ConstructedNode(cfg, e) ==
    /\ node = cfg
    /\ env = e
    /\ lock_primary = Free
    /\ wptr_secondary = [c \in SecChannels |-> 0]
    /\ buffer_full_secondary = [c \in SecChannels |-> 0]
    /\ lock_secondary = [c \in SecChannels |-> Free]
    /\ channel_data_secondary =
           [c \in SecChannels |-> [s \in 0..(cfg.buffer_size_secondary - 1) |-> 0]]
    /\ time_array_secondary =
           [c \in SecChannels |-> [s \in 0..(cfg.buffer_size_secondary - 1) |-> 0]]
    /\ message_queue = EmptyQueue
    /\ frontend = <<>>
    /\ backend = <<>>
    /\ inbox = [r \in RIds |-> <<>>]
    /\ replies = [c \in 1..MaxClients |-> <<>>]
    /\ published = <<>>
    /\ stream_online = e.online
    /\ nsent = 0
    /\ nqueued = 0
    /\ npushed = [c \in SecChannels |-> 0]
    /\ committed =
           [c \in SecChannels |->
              {[data |-> [s \in 0..(cfg.buffer_size_secondary - 1) |-> 0],
                time |-> [s \in 0..(cfg.buffer_size_secondary - 1) |-> 0],
                w |-> 0, full |-> 0]}]

\* The node object as __init__ leaves it, for constructor arguments cfg
\* and an environment e.
Constructed(cfg, e) ==
    /\ ConstructedNode(cfg, e)
    /\ ConstructedRing(cfg)

\* no start() yet
NotStarted ==
    /\ run_state = 0
    /\ sup = [pc |-> "idle", k |-> 0, gen |-> 0, metric_names |-> <<>>,
              metric_descriptions |-> <<>>, metric_pointers |-> <<>>]
    /\ beacon = "none"
    /\ proc_broker = [g \in Gens |-> NoBroker]
    /\ proc_publisher = [g \in Gens |-> "none"]
    /\ proc_receiver = [g \in Gens |-> NoReceiver]
    /\ proc_responder = [r \in RIds |-> NoResponder]
    /\ proc_user = [u \in UIds |-> NoUser]

\* The processes the first start() launches, other than the receiver.
StartedProcesses(cfg) ==
    /\ run_state = 1
    /\ sup = [pc |-> "idle", k |-> 1, gen |-> 1,
              metric_names |-> MetricNames(cfg.metric_functions),
              metric_descriptions |-> MetricDescriptions(cfg.metric_functions),
              metric_pointers |-> MetricPointers(cfg.metric_functions)]
    /\ beacon = "online"
    /\ proc_broker = [g \in Gens |-> IF g = 1 THEN NewBroker ELSE NoBroker]
    /\ proc_publisher =
           [g \in Gens |-> IF g = 1 /\ cfg.run_publisher THEN "start" ELSE "none"]
    /\ proc_responder =
           [r \in RIds |-> IF r[1] = 1 /\ r[2] <= cfg.n_workers
                           THEN NewResponder ELSE NoResponder]
    /\ proc_user =
           [u \in UIds |-> IF u[1] = 1 /\ u[2] <= cfg.n_user
                           THEN NewUser ELSE NoUser]

\* The node as the first start() leaves it, before any of the processes it
\* launched has run.
Started(cfg, e) ==
    /\ Constructed(cfg, e)
    /\ StartedProcesses(cfg)
    /\ proc_receiver =
           [g \in Gens |-> IF g = 1 /\ cfg.primary_node
                           THEN [NoReceiver EXCEPT !.pc = "resolve"]
                           ELSE NoReceiver]

\* The started node once its receiver has appended the first sample of the
\* stream, with timestamp 1, and waits in pull_sample for the next one.
StartedFirstAppend(cfg, e) ==
    /\ ConstructedNode(cfg, e)
    /\ StartedProcesses(cfg)
    /\ wptr = 1 % cfg.buffer_size
    /\ buffer_full = IF 1 >= cfg.buffer_size THEN 1 ELSE 0
    /\ channel_data = [c \in Channels |-> [s \in 0..(cfg.buffer_size - 1) |->
                          IF s = 0 THEN SampleX(1)[c] ELSE 0]]
    /\ time_array = [s \in 0..(cfg.buffer_size - 1) |-> IF s = 0 THEN 1 ELSE 0]
    /\ npulled = 1
    /\ arrivals = <<[x |-> SampleX(1), t |-> 1]>>
    /\ proc_receiver =
           [g \in Gens |-> IF g = 1
                           THEN [pc |-> "pull", i |-> 1, k |-> NChannels + 1,
                                 x |-> SampleX(1), t |-> 1, last_time |-> 1]
                           ELSE NoReceiver]

BaseNode ==
    [primary_node |-> TRUE, secondary_data |-> FALSE, run_publisher |-> FALSE,
     n_workers |-> NWorkers, n_user |-> 0, sampling_rate |-> 1,
     buffer_size |-> BufferSize, buffer_size_secondary |-> BufferSizeSecondary,
     nodename |-> "basenode", ip |-> "127.0.0.1", port_publisher |-> 5003,
     channel_names |-> [c \in Channels |-> "ch" \o ToString(c)],
     channel_descriptions |-> [c \in Channels |-> ""],
     channel_names_secondary |-> <<>>, channel_descriptions_secondary |-> <<>>,
     metric_functions |-> <<>>]

BaseEnv ==
    [stall |-> TRUE, samples |-> MaxSamples, timestamps |-> "given",
     online |-> FALSE, double_start |-> FALSE,
     max_requests |-> MaxRequests,
     request_types |-> {"data"}, request_complete |-> {TRUE},
     parameters |-> {<<>>}, commands |-> {<<<<"get_topic_list">>>>},
     timewindows |-> {<<0, BufferSize>>},
     puts |-> [k \in 1..NSecondary |-> MaxMessages],
     pushes |-> MaxPushes]

(* ---------------------------- specifications --------------------------- *)
\* Life cycle: start() and stop(), called in turn, on a primary node with a
\* publisher and one user process; the stream keeps delivering one sample,
\* and clients send data requests.
Init ==
    /\ Constructed([BaseNode EXCEPT !.run_publisher = TRUE, !.n_user = 1],
                   [BaseEnv EXCEPT !.stall = FALSE, !.samples = 1])
    /\ NotStarted

Next ==
    \/ Start
    \/ Stop
    \/ StreamOnline
    \/ ClientSend
    \/ \E g \in Gens : Receiver(g) \/ Broker(g) \/ PublisherConnect(g)
                          \/ PublisherLoop(g) \/ PublisherCheck(g)
    \/ \E r \in RIds : Responder(r) \/ PrimarySnapshot(r)

Spec == Init /\ [][Next]_vars

\* Any caller: start() and stop() called in any order on a primary node
\* with one user process, no publisher and no client; the stream is up and
\* goes silent after MaxSamplesAnyCaller samples.
InitAnyCaller ==
    /\ Constructed([BaseNode EXCEPT !.n_user = 1],
                   [BaseEnv EXCEPT !.double_start = TRUE, !.max_requests = 0,
                                   !.online = TRUE,
                                   !.samples = MaxSamplesAnyCaller])
    /\ NotStarted

NextAnyCaller ==
    \/ Start
    \/ Stop
    \/ \E g \in Gens : ReceiverResolved(g) \/ ReceiverRun(g)
    \/ \E g \in Gens : BrokerBind(g) \/ BrokerLoop(g) \/ BrokerBackend(g)
                          \/ BrokerIdle(g)
    \/ \E r \in RIds : ResponderReady(r) \/ ResponderLoop(r)

SpecAnyCaller == InitAnyCaller /\ [][NextAnyCaller]_vars

\* Primary ring: a running primary node, its receiver fed MaxSamples samples
\* with or without timestamps, and responders serving requests of every kind.
InitPrimary ==
    /\ Started(BaseNode,
               [BaseEnv EXCEPT !.timestamps = "mixed",
                               !.request_types = {"data", "metric", "command",
                                                  "other", "missing"},
                               !.request_complete = BOOLEAN])

NextPrimary ==
    \/ StreamOnline
    \/ ClientSend
    \/ \E g \in Gens : Receiver(g) \/ Broker(g)
    \/ \E r \in RIds : Responder(r) \/ PrimarySnapshot(r)

SpecPrimary == InitPrimary /\ [][NextPrimary]_vars

\* Secondary rings: a running node with both kinds of ring whose stream has
\* delivered one sample and then stalls; user processes push samples and
\* chunks while responders take snapshots.
InitSecondary ==
    /\ StartedFirstAppend([BaseNode EXCEPT
                   !.secondary_data = TRUE,
                   !.n_user = NSecondary,
                   !.channel_names_secondary =
                       [c \in SecChannels |-> "sec" \o ToString(c)],
                   !.channel_descriptions_secondary =
                       [c \in SecChannels |-> ""]],
               [BaseEnv EXCEPT !.online = TRUE, !.samples = 1])

NextSecondary ==
    \/ ClientSend
    \/ \E g \in Gens : Broker(g)
    \/ \E r \in RIds : Responder(r) \/ PrimarySnapshot(r) \/ SecondarySnapshot(r)
    \/ \E u \in UIds : UserPush(u)

SpecSecondary == InitSecondary /\ [][NextSecondary]_vars

\* Broker: NWorkersBroker responders and MaxRequestsBroker back-to-back
\* command requests on a node whose stream never comes up.
InitBroker ==
    /\ Started([BaseNode EXCEPT !.n_workers = NWorkersBroker],
               [BaseEnv EXCEPT !.max_requests = MaxRequestsBroker,
                               !.request_types = {"command"}])

NextBroker ==
    \/ ClientSend
    \/ \E g \in Gens : ReceiverRetry(g) \/ Broker(g)
    \/ \E r \in RIds : Responder(r)

SpecBroker == InitBroker /\ [][NextBroker]_vars

\* Shutdown: stop() called once on a running primary node with a publisher
\* and one user process; the stream is up and never stalls, and a client
\* sends a data request.  Every process that can run is scheduled, and the
\* caller does call stop().
InitStop ==
    /\ Started([BaseNode EXCEPT !.run_publisher = TRUE, !.n_user = 1],
               [BaseEnv EXCEPT !.stall = FALSE, !.samples = 1,
                               !.online = TRUE])

NextStop ==
    \/ Stop
    \/ ClientSend
    \/ \E g \in Gens : ReceiverResolved(g) \/ ReceiverRun(g) \/ Broker(g)
    \/ \E g \in Gens : PublisherConnect(g) \/ PublisherLoop(g)
                          \/ PublisherCheck(g)
    \/ \E r \in RIds : Responder(r) \/ PrimarySnapshot(r)

FairStop ==
    /\ WF_vars(Stop)
    /\ \A g \in Gens :
          /\ WF_vars(ReceiverResolved(g) \/ ReceiverRun(g))
          /\ WF_vars(Broker(g))
          /\ WF_vars(PublisherConnect(g) \/ PublisherLoop(g)
                        \/ PublisherCheck(g))
    /\ \A r \in RIds : WF_vars(Responder(r) \/ PrimarySnapshot(r))

SpecStop == InitStop /\ [][NextStop]_vars /\ FairStop

\* Commands: a running primary node at ip 10.0.0.1 with or without a
\* publisher on port 5003 and with the toy metric registered; the receiver
\* fills the ring while clients send command requests of every shape.
Commands ==
    {<<<<"get_metric_list">>>>, <<<<"get_nodeinfo">>>>, <<<<"get_publisher">>>>,
     <<<<"get_data_list">>>>, <<<<"get_topic_list">>>>,
     <<<<"get_publisher", ":", "x">>>>,
     <<<<"get_">>, <<"publisher", ":", "a", ":", "b">>>>,
     <<<<"get_nodeinfo", ":">>>>,
     <<<<"nope">>>>, <<<<"nope", ":", "get_publisher">>>>,
     <<<<":", "get_publisher">>>>, <<<<"get_publisher", " ">>>>,
     <<<<"get_publisher", ",", "x">>>>, <<<<>>>>, <<>>}

InitCommand ==
    \E pub \in BOOLEAN :
        Started([BaseNode EXCEPT !.run_publisher = pub, !.ip = "10.0.0.1",
                                 !.port_publisher = 5003,
                                 !.metric_functions = <<TestMetric>>],
                [BaseEnv EXCEPT !.online = TRUE,
                                !.request_types = {"command"},
                                !.commands = Commands])

NextCommand ==
    \/ ClientSend
    \/ \E g \in Gens : ReceiverResolved(g) \/ ReceiverRun(g) \/ Broker(g)
    \/ \E g \in Gens : PublisherConnect(g) \/ PublisherLoop(g)
                          \/ PublisherCheck(g)
    \/ \E r \in RIds : Responder(r)

SpecCommand == InitCommand /\ [][NextCommand]_vars

\* Registry: start() on a node whose user has registered up to MaxMetrics
\* metric functions, with and without docstrings, under one name or two;
\* clients then ask for the metric list.
MetricFunctions ==
    {TestMetric,
     [name |-> "test", doc |-> <<<<"another test", "\n", "second line">>>>,
      arity |-> 1],
     MeanMetric,
     [name |-> "mean", doc |-> NoDoc, arity |-> 1]}

RECURSIVE SeqsUpTo(_, _)
SeqsUpTo(S, n) ==
    IF n = 0 THEN {<<>>}
    ELSE LET shorter == SeqsUpTo(S, n - 1)
         IN  shorter \cup {Append(q, x) : q \in shorter, x \in S}

InitRegistry ==
    /\ \E fns \in SeqsUpTo(MetricFunctions, MaxMetrics) :
          Constructed([BaseNode EXCEPT !.metric_functions = fns],
                      [BaseEnv EXCEPT !.request_types = {"command"},
                                      !.commands = {<<<<"get_metric_list">>>>}])
    /\ NotStarted

NextRegistry ==
    \/ StartLaunch
    \/ StartOnline
    \/ StartRaise
    \/ ClientSend
    \/ \E g \in Gens : ReceiverRetry(g) \/ Broker(g)
    \/ \E r \in RIds : Responder(r)

SpecRegistry == InitRegistry /\ [][NextRegistry]_vars

\* Metrics: a running primary node with three registered metric functions;
\* the receiver fills the ring while clients send metric requests whose
\* specifiers name known and unknown metrics and channels, no channel, an
\* empty channel, parameters, and two specifiers of one key.
MetricRequests ==
    {<<>>,
     <<<<"test">>>>,
     <<<<"nope", ":", "x">>>>,
     <<<<"mean", ":", "ch1">>>>,
     <<<<"mean", ":", "ch1", ",", "ch2">>, <<"nope", ":", "ch1">>,
       <<"mean", ":", "zz">>>>,
     <<<<"mean", ":", "ch1", ",", "zz">>, <<"scale", ":", "ch1", ":", "zz">>>>,
     <<<<"scale", ":", "ch1", ",", "2">>, <<"scale", ":", "ch1", ":", "2">>>>,
     <<<<"scale", ":", "ch1", ":", "2">>, <<"scale", ":", "ch1", ",", "2">>>>,
     <<<<"test", ":", "ch1">>>>,
     <<<<"mean", ":">>, <<":", "ch1">>>>,
     <<<<"scale", ":", "ch2", ":", "x", ":", "10">>>>,
     <<<<"mean", ":", "ch2">>, <<"mean", ":", "ch2">>>>}

InitMetric ==
    /\ Started([BaseNode EXCEPT
                   !.metric_functions = <<TestMetric, MeanMetric, ScaleMetric>>],
               [BaseEnv EXCEPT !.online = TRUE, !.request_types = {"metric"},
                               !.parameters = MetricRequests])

NextMetric ==
    \/ ClientSend
    \/ \E g \in Gens : ReceiverResolved(g) \/ ReceiverRun(g) \/ Broker(g)
    \/ \E r \in RIds : Responder(r) \/ PrimarySnapshot(r)

SpecMetric == InitMetric /\ [][NextMetric]_vars

\* Windows: the fill-and-wrap scenario (ring of 4, one sample per second,
\* samples 1..5 with timestamps 1..5) and the synthesized-timestamp scenario
\* (ring of 3, sampling_rate 2, timestamp 10 with the first of 3 samples and
\* none after); a client sends a data request with one of the windows.
Scenarios ==
    {[buffer_size |-> 4, sampling_rate |-> 1, samples |-> 5,
      timestamps |-> "given",
      timewindows |-> {<<0, 4>>, <<0, 2>>, <<1, 2>>, <<2, 1>>, <<0, 0>>}],
     [buffer_size |-> 3, sampling_rate |-> 2, samples |-> 3,
      timestamps |-> "first",
      timewindows |-> {<<0, 10>>, <<0, 4>>, <<2, 4>>}]}

InitWindow ==
    \E sc \in Scenarios :
        Started([BaseNode EXCEPT !.buffer_size = sc.buffer_size,
                                 !.sampling_rate = sc.sampling_rate],
                [BaseEnv EXCEPT !.online = TRUE, !.samples = sc.samples,
                                !.timestamps = sc.timestamps,
                                !.timewindows = sc.timewindows,
                                !.parameters = {<<<<"ch1">>, <<"ch2">>>>}])

NextWindow ==
    \/ ClientSend
    \/ \E g \in Gens : ReceiverResolved(g) \/ ReceiverRun(g) \/ Broker(g)
    \/ \E r \in RIds : Responder(r) \/ PrimarySnapshot(r)

SpecWindow == InitWindow /\ [][NextWindow]_vars

\* Repeated snapshots: NWorkersRepeat responders serve MaxRequestsRepeat data
\* requests with one of two windows while the receiver appends MaxSamples
\* samples and then waits for the stream.
InitRepeat ==
    /\ Started([BaseNode EXCEPT !.n_workers = NWorkersRepeat],
               [BaseEnv EXCEPT !.online = TRUE,
                               !.max_requests = MaxRequestsRepeat,
                               !.timewindows = {<<0, BufferSize>>, <<0, 1>>},
                               !.parameters = {<<<<"ch1">>>>}])

NextRepeat ==
    \/ ClientSend
    \/ \E g \in Gens : ReceiverResolved(g) \/ ReceiverRun(g) \/ Broker(g)
    \/ \E r \in RIds : Responder(r) \/ PrimarySnapshot(r)

SpecRepeat == InitRepeat /\ [][NextRepeat]_vars

\* Outbound queue: a running primary node with a publisher and NSecondary user
\* processes that put up to MaxMessages payloads between them, the user
\* processes after the first at most MaxMessagesOther each; the stream never
\* comes up, so the receiver only retries.
InitPublisher ==
    /\ Started([BaseNode EXCEPT !.run_publisher = TRUE, !.n_user = NSecondary],
               [BaseEnv EXCEPT
                   !.max_requests = 0,
                   !.puts = [k \in 1..NSecondary |->
                                IF k = 1 THEN MaxMessages ELSE MaxMessagesOther]])

NextPublisher ==
    \/ \E u \in UIds : UserPut(u) \/ UserFeed(u)
    \/ \E g \in Gens : Publisher(g) \/ ReceiverRetry(g)

SpecPublisher == InitPublisher /\ [][NextPublisher]_vars

\* Unresolved stream: a running primary node whose stream never comes up;
\* clients send command requests and the caller calls stop(), which gets as
\* far as joining the receiver.  Every process that can run is scheduled.
InitUnresolved ==
    /\ Started(BaseNode,
               [BaseEnv EXCEPT !.request_types = {"command", "other", "missing"},
                               !.request_complete = BOOLEAN])

NextUnresolved ==
    \/ StopBegin
    \/ StopClear
    \/ StopResponder
    \/ JoinBroker
    \/ ClientSend
    \/ \E g \in Gens : ReceiverRetry(g) \/ Broker(g)
    \/ \E r \in RIds : Responder(r)

FairUnresolved ==
    /\ WF_vars(Stop)
    /\ \A g \in Gens : WF_vars(Receiver(g)) /\ WF_vars(Broker(g))
    /\ \A r \in RIds : WF_vars(Responder(r))

SpecUnresolved == InitUnresolved /\ [][NextUnresolved]_vars /\ FairUnresolved

\* Secondary locks: the node of the secondary scenario with NWorkersRepeat
\* responders and MaxRequestsRepeat data requests, so that two snapshots
\* contend for the secondary locks with each other and with the user
\* processes.  Every process that can run is scheduled.
InitLocks ==
    /\ StartedFirstAppend([BaseNode EXCEPT
                   !.secondary_data = TRUE,
                   !.n_workers = NWorkersRepeat,
                   !.n_user = NSecondary,
                   !.channel_names_secondary =
                       [c \in SecChannels |-> "sec" \o ToString(c)],
                   !.channel_descriptions_secondary =
                       [c \in SecChannels |-> ""]],
               [BaseEnv EXCEPT !.online = TRUE, !.samples = 1,
                               !.max_requests = MaxRequestsRepeat,
                               !.pushes = MaxPushesLocks])

\* The responders and user processes the first start() launches.
LocksResponders == {r \in RIds : r[1] = 1 /\ r[2] <= NWorkersRepeat}
LocksUsers == {u \in UIds : u[1] = 1}

FairLocks ==
    /\ WF_vars(Broker(1))
    /\ \A r \in LocksResponders :
          WF_vars(Responder(r) \/ PrimarySnapshot(r) \/ SecondarySnapshot(r))
    /\ \A u \in LocksUsers :
          WF_vars(SampleAcquire(u) \/ SampleBody(u) \/ SampleRelease(u)
                     \/ ChunkAcquire(u) \/ ChunkBody(u) \/ ChunkRelease(u))

SpecLocks == InitLocks /\ [][NextSecondary]_vars /\ FairLocks

\* get_sample: a running primary node with a ring of length 1 or BufferSize
\* and one user process that calls get_sample(); the stream delivers
\* MaxSamples distinct samples and then keeps delivering the last one.  The
\* receiver and a get_sample() call under way are always scheduled.
InitSample ==
    \E b \in {1, BufferSize} :
        Started([BaseNode EXCEPT !.n_user = 1, !.buffer_size = b],
                [BaseEnv EXCEPT !.stall = FALSE, !.online = TRUE,
                                !.max_requests = 0])

NextSampleCall ==
    \/ \E g \in Gens : ReceiverResolved(g) \/ ReceiverRun(g)
    \/ \E u \in UIds : GetSample(u)

FairSample ==
    /\ WF_vars(ReceiverResolved(1) \/ ReceiverRun(1))
    /\ WF_vars(GetSampleWait(<<1, 1>>) \/ GetSampleRead(<<1, 1>>)
                  \/ GetSampleReturn(<<1, 1>>))

SpecSample == InitSample /\ [][NextSampleCall]_vars /\ FairSample

(* ============================ properties ============================== *)
(* ---------------------------- primary ring ---------------------------- *)
\* The ring of length B after the first k samples of the arrival history:
\* slot s holds the last of them written to s (sample j goes to slot
\* (j - 1) mod B), the write index is k mod B and the full flag is set iff
\* k >= B.
LastAt(k, s) ==
    LET js == {j \in 1..k : (j - 1) % node.buffer_size = s}
    IN  IF js = {} THEN 0 ELSE CHOOSE j \in js : \A m \in js : m <= j

RingAfter(k) ==
    [time_array |-> [s \in Slots |->
                       IF LastAt(k, s) = 0 THEN 0 ELSE arrivals[LastAt(k, s)].t],
     channel_data |-> [c \in Channels |-> [s \in Slots |->
                       IF LastAt(k, s) = 0 THEN 0
                       ELSE arrivals[LastAt(k, s)].x[c]]],
     wptr |-> k % node.buffer_size,
     buffer_full |-> IF k >= node.buffer_size THEN 1 ELSE 0]

\* what data_snapshot has copied once its last copy is made
SnapshotCopy(r) ==
    [time_array |-> proc_responder[r].time_array_copy,
     channel_data |-> proc_responder[r].channel_data_copy,
     wptr |-> proc_responder[r].wp_copy,
     buffer_full |-> proc_responder[r].bf_copy]

\* C1: the tuple a data_snapshot has copied (channel arrays, timestamp
\* array, write index, full flag) is the ring state after some whole number
\* k of appends, with write index k mod B and the full flag set iff k >= B;
\* it never combines fields that belong to different appends.
C1_SnapshotIsOneRingState ==
    \A r \in RIds :
        proc_responder[r].pc = "release" =>
            \E k \in 0..Len(arrivals) : SnapshotCopy(r) = RingAfter(k)

\* the last n elements of a sequence
LastN(a, n) == SubSeq(a, Len(a) - n + 1, Len(a))

\* no append is under way: no receiver is between acquire and release
Quiescent == \A g \in Gens : lock_primary # RecvPid(g)

\* C3: after k samples have been appended to the ring of length B, reading
\* the ring through the index vector built from (w, full) gives the last
\* min(k, B) samples in their order of arrival, for every channel and for
\* the timestamps.
C3_UnwrapIsArrivalOrder ==
    Quiescent =>
        LET k == Len(arrivals)
            ind == GetIndexVector(node.buffer_size, buffer_full, wptr)
            last == LastN(arrivals, Min(k, node.buffer_size))
        IN  /\ Reindex(time_array, ind) = [j \in 1..Len(last) |-> last[j].t]
            /\ \A c \in Channels :
                 Reindex(channel_data[c], ind) =
                     [j \in 1..Len(last) |-> last[j].x[c]]

(* --------------------------- secondary rings -------------------------- *)
\* data_snapshot_secondary has made its last copy and released nothing yet
CopiedSecondary(r) ==
    /\ proc_responder[r].pc = "release_secondary"
    /\ proc_responder[r].k = 1

\* what data_snapshot_secondary has copied of channel c
SecondaryCopy(r, c) ==
    [data |-> proc_responder[r].channel_data_copy_secondary[c],
     time |-> proc_responder[r].time_array_copy_secondary[c],
     w |-> proc_responder[r].wp_copy_secondary[c],
     full |-> proc_responder[r].bf_copy_secondary[c]]

\* C2: a secondary snapshot's copy of a channel (data, timestamps, write
\* index, full flag) is the channel as whole push calls left it: of
\* the m samples of a push_chunk_secondary it holds none or all, never a
\* proper non-empty prefix.
C2_ChunkIsAtomic ==
    \A r \in RIds :
        CopiedSecondary(r) =>
            \A c \in SecChannels : SecondaryCopy(r, c) \in committed[c]

\* a snapshot that holds earlier samples is complete while a chunk of
\* MaxChunk samples waits for the channel's lock
C2_Witness ==
    \E r \in RIds, u \in UIds :
        /\ CopiedSecondary(r)
        /\ proc_user[u].pc = "chunk_acquire"
        /\ Len(proc_user[u].chunk) = MaxChunk
        /\ SecondaryCopy(r, u[2]).w + SecondaryCopy(r, u[2]).full > 0

\* C5: data_snapshot_secondary holds every secondary lock from before its
\* first copy until after its last, and what it has copied (data arrays,
\* timestamp arrays, write indices, full flags of all channels) is the
\* joint state of the secondary rings at one instant.
C5_SecondarySnapshotIsJointState ==
    \A r \in RIds :
        LET pc == proc_responder[r].pc IN
        /\ pc \in {"copy_data_secondary", "copy_time_secondary",
                   "copy_flags_secondary"} \/ CopiedSecondary(r) =>
              \A c \in SecChannels : lock_secondary[c] = RespPid(r)
        /\ CopiedSecondary(r) =>
              \A c \in SecChannels : SecondaryCopy(r, c) = ChannelState(c)

\* the copies are complete, both channels hold samples and a push to each
\* channel waits for its lock
C5_Witness ==
    \E r \in RIds :
        /\ CopiedSecondary(r)
        /\ \A c \in SecChannels :
              /\ wptr_secondary[c] + buffer_full_secondary[c] > 0
              /\ \E u \in UIds :
                    /\ u[2] = c
                    /\ proc_user[u].pc \in {"sample_acquire", "chunk_acquire"}

(* ----------------------------- life cycle ----------------------------- *)
\* the receiver processes that have been started and have not ended
LiveReceivers == {g \in Gens : Alive(proc_receiver[g].pc)}

\* C4: whatever calls of start() and stop() were made, while the run-flag
\* is set the primary ring has one writer: never two live receivers.
C4_OneReceiver ==
    run_state = 1 => Cardinality(LiveReceivers) <= 1

(* ------------------------------- broker ------------------------------- *)
\* a responder that has taken a request and not yet sent its reply
Busy(r) ==
    proc_responder[r].pc \notin
        {"none", "start", "loop", "receive", "done", "terminated"}

\* the requests assigned to a responder and not yet answered
Outstanding(r) == Len(inbox[r]) + IF Busy(r) THEN 1 ELSE 0

\* C6: every responder has at most one outstanding request, and a request
\* is assigned only to a responder that has no request and stands at the
\* head of the idle queue, which it then leaves: responders are used in the
\* order in which they reported ready.
C6_OneOutstandingRequest ==
    /\ [](\A r \in RIds : Outstanding(r) <= 1)
    /\ [][\A r \in RIds :
            Len(inbox'[r]) > Len(inbox[r]) =>
                /\ Outstanding(r) = 0
                /\ \E g \in Gens :
                      /\ proc_broker[g].workers # <<>>
                      /\ Head(proc_broker[g].workers) = r
                      /\ proc_broker'[g].workers = Tail(proc_broker[g].workers)
         ]_vars

\* all MaxRequestsBroker requests have been answered, once each
C6_Witness ==
    /\ nsent = MaxRequestsBroker
    /\ \A c \in 1..MaxRequestsBroker : Len(replies[c]) = 1
    /\ \A r \in RIds : r[1] = 1 /\ r[2] <= NWorkersBroker =>
                          proc_responder[r].pc = "receive"

\* C7: the broker takes a request from the front-facing endpoint only while
\* its idle queue is non-empty, and the request goes to the responder at
\* the head of that queue; while every responder is busy the queued
\* requests stay where they are.
C7_RequestsWaitForIdleResponder ==
    [][Len(frontend') < Len(frontend) =>
          \E g \in Gens :
             /\ proc_broker[g].workers # <<>>
             /\ frontend' = Tail(frontend)
             /\ inbox' = [inbox EXCEPT ![Head(proc_broker[g].workers)] =
                                           Append(@, Head(frontend))]
      ]_vars

\* every responder is busy, the idle queue is empty and requests wait
C7_Witness ==
    /\ frontend # <<>>
    /\ proc_broker[1].pc = "poll"
    /\ proc_broker[1].workers = <<>>
    /\ \A r \in RIds : r[1] = 1 /\ r[2] <= NWorkersBroker => Outstanding(r) = 1

(* ----------------------------- responders ----------------------------- *)
\* a request with a known type and the fields that type needs
WellFormed(m) == m.type \in {"metric", "data", "command"} /\ m.complete

\* C8: a responder that has received a request, malformed or not, stays
\* alive and sends one reply for it, and the reply to a request with a
\* missing or unknown type or with missing fields is "not recognized".
C8_EveryRequestAnswered ==
    /\ \A r \in RIds :
          /\ proc_responder[r].pc # "crashed"
          /\ proc_responder[r].pc = "reply"
                /\ ~WellFormed(proc_responder[r].message) =>
                    proc_responder[r].return_value = ErrorValue
    /\ \A c \in 1..MaxClients : Len(replies[c]) <= 1

\* the program points of a responder inside data_snapshot or
\* data_snapshot_secondary up to its last release
InSnapshot ==
    {"snapshot", "copy_time", "copy_flags", "copy_data", "release",
     "snapshot_secondary", "copy_data_secondary", "copy_time_secondary",
     "copy_flags_secondary", "release_secondary"}

\* C9: once the run-flag is cleared no responder enters a primary or
\* secondary snapshot, and a responder inside a snapshot is not ended
\* before it has released its locks.
C9_SnapshotsEndNormally ==
    [][run_state = 0 =>
          \A r \in RIds :
             /\ proc_responder'[r].pc \in {"snapshot", "snapshot_secondary"} =>
                    proc_responder[r].pc = proc_responder'[r].pc
             /\ proc_responder[r].pc \in InSnapshot =>
                    proc_responder'[r].pc # "terminated"
      ]_vars

(* ------------------------------ shutdown ------------------------------ *)
\* no process of the node is running
AllStopped ==
    /\ \A g \in Gens : /\ ~Alive(proc_broker[g].pc)
                       /\ ~Alive(proc_receiver[g].pc)
                       /\ ~Alive(proc_publisher[g])
    /\ \A r \in RIds : ~Alive(proc_responder[r].pc)
    /\ \A u \in UIds : ~Alive(proc_user[u].pc)

\* C10: once stop() has cleared the run-flag, the receiver, publisher and
\* broker loops exit, every join completes, and stop() returns with no
\* worker of the node running.
C10_StopReturns ==
    (run_state = 0 /\ sup.pc = "stop_responders")
        ~> (sup.pc = "idle" /\ AllStopped)

\* everything but the supervisor's own position
nodeState == <<node, env, run_state, wptr, buffer_full, lock_primary,
               channel_data, time_array, wptr_secondary, buffer_full_secondary,
               lock_secondary, channel_data_secondary, time_array_secondary,
               message_queue, beacon, proc_broker, proc_publisher,
               proc_receiver, proc_responder, proc_user>>

\* C11: stop() on a node whose run-flag is 0 changes nothing: run-flag,
\* beacon, processes, locks and rings stay as they are, nothing is
\* terminated or joined, and the call returns without waiting.
C11_StopWhenNotRunning ==
    /\ [](sup.pc = "not_running" => ENABLED StopReturn)
    /\ [][/\ run_state = 0
          /\ sup.pc \in {"idle", "not_running"}
          /\ sup' # sup
          /\ run_state' = 0
          => /\ UNCHANGED nodeState
             /\ sup'.gen = sup.gen
             /\ sup'.pc = IF sup.pc = "idle" THEN "not_running" ELSE "idle"
         ]_vars

\* stop() has been called a second time after a stop() that returned
C11_Witness ==
    /\ sup.pc = "not_running"
    /\ sup.gen >= 1
    /\ beacon = "stopped"

\* C12: a receiver whose stream never resolves stops retrying and exits
\* once the run-flag has been cleared.
C12_UnresolvedReceiverExits ==
    \A g \in Gens :
        (proc_receiver[g].pc = "resolve" /\ run_state = 0)
            ~> (proc_receiver[g].pc = "done")

(* ------------------------------ commands ------------------------------- *)
CommandNames ==
    {"get_metric_list", "get_nodeinfo", "get_publisher", "get_data_list",
     "get_topic_list"}

\* the text of a list of strings up to its first ':'
BeforeColon(command) ==
    LET flat == Join(command)
        colons == {i \in 1..Len(flat) : flat[i] = ":"}
        stop == IF colons = {} THEN Len(flat) + 1
                ELSE CHOOSE i \in colons : \A j \in colons : i <= j
    IN  Text(SubSeq(flat, 1, stop - 1))

\* the value of a recognized command, given the full flag it read
CommandValue(name, full) ==
    CASE name = "get_metric_list" ->
             Dict("test" :> "Toy metric function that returns 'heads' or 'tails'.")
      [] name = "get_nodeinfo" ->
             Dict([name |-> "basenode", primary_node |-> TRUE,
                   channel_count |-> NChannels,
                   channel_names |-> JoinComma(node.channel_names),
                   channel_descriptions |-> JoinComma(node.channel_descriptions),
                   sampling_rate |-> 1, buffer_full |-> full])
      [] name = "get_publisher" ->
             Str(IF node.run_publisher THEN "tcp://10.0.0.1:5003" ELSE "")
      [] name = "get_data_list" ->
             Dict([n \in {node.channel_names[c] : c \in Channels} |-> ""])
      [] name = "get_topic_list" -> Dict(<<>>)

\* C18: analyze_command returns "unknown command" exactly when the text
\* before the first ':' of the command is not one of the five command
\* names; for a recognized name it returns that command's value whatever
\* arguments follow (get_publisher gives "tcp://10.0.0.1:5003" with the
\* publisher enabled on 10.0.0.1, port 5003); and a step of a responder
\* serving a command changes no ring.
C18_AnalyzeCommand ==
    /\ [](\A r \in RIds :
            LET p == proc_responder[r]
                name == BeforeColon(p.message.command)
            IN  p.pc = "reply" /\ p.message.type = "command" =>
                  /\ p.return_value.result = Str("unknown command")
                        <=> name \notin CommandNames
                  /\ name \in CommandNames =>
                        \E full \in {0, 1} :
                           p.return_value.result = CommandValue(name, full))
    /\ [][\A r \in RIds :
            /\ proc_responder'[r] # proc_responder[r]
            /\ \/ proc_responder[r].message.type = "command"
               \/ proc_responder'[r].message.type = "command"
            => UNCHANGED <<primaryVars, secondaryVars, lock_primary,
                           lock_secondary>>]_vars

\* get_publisher with arguments has been answered with the publisher's URL
\* while the ring holds samples
C18_Witness ==
    \E r \in RIds :
        LET p == proc_responder[r] IN
        /\ p.pc = "reply"
        /\ Len(Join(p.message.command)) > 1
        /\ p.return_value.result = Str("tcp://10.0.0.1:5003")
        /\ arrivals # <<>>

(* --------------------------- metric registry --------------------------- *)
RegisteredNames ==
    {node.metric_functions[i].name : i \in 1..Len(node.metric_functions)}

\* C20: for every list of registered metric functions, once start() has
\* been called the names in the mapping get_metric_list returns are the
\* names of the registered functions, and the callable stored under each
\* name is a registered function of that name.
C20_MetricListIsRegistry ==
    run_state = 1 /\ sup.pc = "idle" =>
        /\ DOMAIN GetMetricList = RegisteredNames
        /\ DOMAIN sup.metric_pointers = RegisteredNames
        /\ \A n \in DOMAIN sup.metric_pointers :
              /\ sup.metric_pointers[n].name = n
              /\ \E i \in 1..Len(node.metric_functions) :
                    node.metric_functions[i] = sup.metric_pointers[n]

(* --------------------------- metric requests --------------------------- *)
\* the specifier with ':' and ',' replaced by '_'
KeyOf(spec) ==
    Text([i \in 1..Len(spec) |-> IF spec[i] \in {":", ","} THEN "_" ELSE spec[i]])

NameOf(spec) == Text(Split(spec, ":")[1])

HasChannels(spec) == Len(Split(spec, ":")) > 1

\* the channels a specifier names
ChannelsOf(spec) ==
    IF HasChannels(spec)
    THEN LET names == Split(Split(spec, ":")[2], ",")
         IN  [i \in 1..Len(names) |-> Text(names[i])]
    ELSE <<>>

\* the metric is not registered, or a named channel is neither a primary
\* nor a secondary channel
UnknownMetricOrChannel(spec) ==
    \/ NameOf(spec) \notin RegisteredNames
    \/ \E c \in Elements(ChannelsOf(spec)) :
          c \notin Elements(node.channel_names)
                     \cup Elements(node.channel_names_secondary)

\* what the registered function of the specifier gives on the snapshot v
FunctionResult(spec, v) ==
    LET parts == Split(spec, ":")
        fns == node.metric_functions
        fn == fns[CHOOSE i \in 1..Len(fns) :
                     /\ fns[i].name = NameOf(spec)
                     /\ \A j \in (i + 1)..Len(fns) : fns[j].name # NameOf(spec)]
        chans == ChannelsOf(spec)
        data == [i \in 1..Len(chans) |->
                    v.data[CHOOSE c \in Channels : node.channel_names[c] = chans[i]]]
        params == [i \in 1..(Len(parts) - 2) |-> Float(parts[i + 2])]
    IN  CallMetric(fn, data, params)

Unknown == Str("unknown metric and/or channel")

\* C13 as stated: in the reply to a metric request every specifier whose
\* metric is not registered or that names a missing channel has exactly
\* "unknown metric and/or channel" under its own key, and every other
\* specifier has the result of its registered function.
C13_UnknownOnlyForUnknown ==
    \A r \in RIds :
        LET p == proc_responder[r]
            list == p.message.parameters
            res == p.return_value.result.dict
        IN  p.pc = "reply" /\ p.message.type = "metric" =>
              \A i \in 1..Len(list) :
                 /\ KeyOf(list[i]) \in DOMAIN res
                 /\ IF UnknownMetricOrChannel(list[i])
                    THEN res[KeyOf(list[i])] = Unknown
                    ELSE /\ res[KeyOf(list[i])] # Unknown
                         /\ HasChannels(list[i]) =>
                               res[KeyOf(list[i])] =
                                   FunctionResult(list[i], p.return_value)

\* C13, amended: the reply has one entry per key; the entry of a key is that
\* of the last specifier with the key: "unknown metric and/or channel" if its
\* metric is not registered, it has no channel part or it names a missing
\* channel, and else the outcome of calling its registered function.
C13_MetricResults ==
    \A r \in RIds :
        LET p == proc_responder[r]
            list == p.message.parameters
            res == p.return_value.result.dict
        IN  p.pc = "reply" /\ p.message.type = "metric" =>
              /\ DOMAIN res = {KeyOf(list[i]) : i \in 1..Len(list)}
              /\ \A i \in 1..Len(list) :
                    (\A j \in (i + 1)..Len(list) : KeyOf(list[j]) # KeyOf(list[i]))
                    => res[KeyOf(list[i])] =
                         IF \/ UnknownMetricOrChannel(list[i])
                            \/ ~HasChannels(list[i])
                         THEN Unknown
                         ELSE FunctionResult(list[i], p.return_value)

\* a reply that holds the value of a function on two channels of a full
\* ring next to the unknown string
C13_Witness ==
    \E r \in RIds :
        LET p == proc_responder[r]
            res == p.return_value.result.dict
        IN  /\ p.pc = "reply"
            /\ p.message.type = "metric"
            /\ DOMAIN res = {"mean_ch1_ch2", "nope_ch1", "mean_zz"}
            /\ res["nope_ch1"] = Unknown
            /\ res["mean_zz"] = Unknown
            /\ res["mean_ch1_ch2"] =
                  [value |-> [fn |-> "mean", data |-> p.return_value.data,
                              params |-> <<>>]]
            /\ Len(p.return_value.time) = BufferSize

(* ------------------------------- windows ------------------------------- *)
\* the samples the ring holds after k appends, oldest first
Held(k) ==
    LET first == Max(1, k - node.buffer_size + 1)
    IN  [j \in 1..(k - first + 1) |-> arrivals[first + j - 1]]

\* the age of each of them: its time before the newest
Ages(k) == [j \in 1..Len(Held(k)) |-> Abs(Held(k)[j].t - arrivals[k].t)]

\* the positions in a sequence of ages that lie in the window of
\* end-offset end and duration dur, in order
RECURSIVE InWindow(_, _, _)
InWindow(ages, end, dur) ==
    IF ages = <<>> THEN <<>>
    ELSE LET n == Len(ages)
             before == InWindow(SubSeq(ages, 1, n - 1), end, dur)
         IN  IF end <= ages[n] /\ ages[n] < end + dur THEN Append(before, n)
                                                      ELSE before

\* the request's window as the client sent it: data_snapshot has rewritten
\* its second element to end - duration
WindowOf(r) ==
    LET tw == proc_responder[r].message.timewindow
    IN  [end |-> tw[1], dur |-> tw[1] - tw[2]]

Replying(r) ==
    /\ proc_responder[r].pc = "reply"
    /\ proc_responder[r].message.type = "data"

NonDecreasing(a) == \A i \in 1..(Len(a) - 1) : a[i] <= a[i + 1]
NonIncreasing(a) == \A i \in 1..(Len(a) - 1) : a[i] >= a[i + 1]

\* C15 as stated: the age vector a snapshot returns is non-decreasing, and
\* its last element is end when the window ends at the newest sample.
C15_AgesNonDecreasing ==
    \A r \in RIds :
        LET time == proc_responder[r].return_value.time IN
        Replying(r) =>
            /\ NonDecreasing(time)
            /\ WindowOf(r).end = 0 /\ time # <<>> =>
                  time[Len(time)] = WindowOf(r).end

\* C15, amended: over a ring whose timestamps do not decrease in arrival
\* order the age vector a snapshot returns is non-increasing, and its last
\* element is end when the window ends at the newest sample and holds one.
C15_AgesNonIncreasing ==
    \A r \in RIds :
        LET p == proc_responder[r]
            time == p.return_value.time
            ind == GetIndexVector(node.buffer_size, p.bf_copy, p.wp_copy)
        IN  Replying(r) /\ NonDecreasing(Reindex(p.time_array_copy, ind)) =>
              /\ NonIncreasing(time)
              /\ WindowOf(r).end = 0 /\ time # <<>> =>
                    time[Len(time)] = WindowOf(r).end

\* a window that ends before the newest sample has returned two ages
C15_Witness ==
    \E r \in RIds :
        /\ Replying(r)
        /\ WindowOf(r) = [end |-> 1, dur |-> 2]
        /\ proc_responder[r].return_value.time = <<2, 1>>

SnapshotPcs == {"snapshot", "copy_time", "copy_flags", "copy_data", "release",
                "unwrap"}

QueueHeld ==
    Range(message_queue.pipe)
        \cup UNION {Range(message_queue.buffer[u]) : u \in UIds}

\* The queue never holds more than QueueCapacity payloads, and no user
\* process can put while it holds that many.
QueueBounded ==
    /\ Cardinality(QueueHeld) <= QueueCapacity
    /\ message_queue.sem = Cardinality(QueueHeld)
    /\ message_queue.sem = QueueCapacity => \A u \in UIds : ~ENABLED UserPut(u)

\* Every emitted string is "<nodename>;<payload>" for a payload that a user
\* process put and the queue holds no more, and no payload is emitted twice.
EmittedOnce ==
    /\ \A i \in DOMAIN published :
          /\ Len(published[i]) = 3
          /\ published[i][1] = node.nodename
          /\ published[i][2] = ";"
          /\ published[i][3].n \in 1..nqueued
          /\ published[i][3].producer \in {u \in UIds : proc_user[u].pc # "none"}
          /\ published[i][3] \notin QueueHeld
    /\ \A i, j \in DOMAIN published : published[i][3] = published[j][3] => i = j

\* C17 (as stated): the outbound queue never holds more than 10 messages, a
\* producer cannot enqueue while 10 are queued, every emitted string is
\* "<nodename>;<payload>" for a payload enqueued earlier, each payload is
\* emitted at most once, and the payloads are emitted in the order in which
\* they were enqueued.
C17_EmittedInPutOrder ==
    /\ QueueBounded
    /\ EmittedOnce
    /\ \A i, j \in DOMAIN published :
          i < j => published[i][3].n < published[j][3].n

\* C17 (amended): the outbound queue never holds more than 10 messages, a
\* producer cannot enqueue while 10 are queued and only the publisher's get
\* makes room, every emitted string is "<nodename>;<payload>" for a payload
\* enqueued earlier, each payload is emitted at most once, and the payloads of
\* one producer are emitted in the order in which that producer enqueued them.
C17_EmittedInProducerOrder ==
    /\ [](/\ QueueBounded
          /\ EmittedOnce
          /\ \A i, j \in DOMAIN published :
                /\ i < j
                /\ published[i][3].producer = published[j][3].producer
                => published[i][3].n < published[j][3].n)
    /\ [][message_queue'.sem < message_queue.sem
            => \E g \in Gens : PublisherSend(g)]_vars

\* ten payloads are queued while a producer still has one to put, and the
\* publisher has emitted two payloads of two producers, the later put first
C17_Witness ==
    /\ message_queue.sem = QueueCapacity
    /\ nqueued < MaxMessages
    /\ \E u \in UIds : proc_user[u].pc = "idle" /\ PutsOf(u) < env.puts[u[2]]
    /\ Len(published) = 2
    /\ published[1][3].n > published[2][3].n
    /\ published[1][3].producer # published[2][3].producer

(* --------------------------- secondary locks --------------------------- *)
SecondaryPcs == {"snapshot_secondary", "copy_data_secondary",
                 "copy_time_secondary", "copy_flags_secondary",
                 "release_secondary", "unwrap_secondary"}

\* A responder is inside data_snapshot_secondary.
InSecondarySnapshot(r) == proc_responder[r].pc \in SecondaryPcs

\* A user process is inside push_sample_secondary or push_chunk_secondary.
Pushing(u) == proc_user[u].pc \notin {"none", "idle"}

\* No snapshot and no push is under way and every secondary lock is free.
SecondaryQuiet ==
    /\ \A r \in LocksResponders : ~InSecondarySnapshot(r)
    /\ \A u \in LocksUsers : ~Pushing(u)
    /\ \A c \in SecChannels : lock_secondary[c] = Free

AppendStep(g, pc) ==
    /\ proc_receiver[g].pc = pc
    /\ proc_receiver'[g] # proc_receiver[g]

\* C22: every append to the primary ring writes the channels and the
\* timestamp at slot w and then advances w to (w + 1) mod B, also for a
\* receiver started by a later start() after a stop(); so 0 <= w < B always
\* and the slot written next is the one after the slot written last.
C22_AppendAdvancesWriteIndex ==
    /\ [](wptr \in 0..(node.buffer_size - 1))
    /\ [][\A g \in Gens :
            /\ AppendStep(g, "write") =>
                  /\ channel_data'[proc_receiver[g].k][wptr]
                        = proc_receiver[g].x[proc_receiver[g].k]
                  /\ wptr' = wptr
            /\ AppendStep(g, "time") =>
                  /\ time_array'[wptr] = proc_receiver'[g].t
                  /\ wptr' = wptr
            /\ AppendStep(g, "advance") =>
                  wptr' = (wptr + 1) % node.buffer_size]_vars

(* --------------------------- secondary rings --------------------------- *)
\* Samples handed to a push call and not written yet, over the processes us.
RECURSIVE Pending(_)
Pending(us) ==
    IF us = {} THEN 0
    ELSE LET u == CHOOSE v \in us : TRUE
         IN  Len(proc_user[u].chunk) + Pending(us \ {u})

\* n_c: the samples written to secondary channel c so far.
Written(c) == npushed[c] - Pending({u \in UIds : u[2] = c})

\* A user process writes a sample to its channel in this step.
PushWrites(u) ==
    /\ proc_user[u].pc \in {"sample_body", "chunk_body"}
    /\ proc_user'[u] # proc_user[u]

\* C23: whenever lock_secondary[c] is free, channel c has 0 <= w_c < B_c,
\* w_c = n_c mod B_c and full_c = 1 iff n_c >= B_c, where n_c counts the
\* samples pushed to channel c; and a push to channel c changes neither
\* another secondary channel's arrays, write index or full flag, nor the
\* primary ring.
C23_SecondaryChannelsIndependent ==
    /\ [](\A c \in SecChannels :
            lock_secondary[c] = Free =>
               /\ wptr_secondary[c] \in 0..(node.buffer_size_secondary - 1)
               /\ wptr_secondary[c] = Written(c) % node.buffer_size_secondary
               /\ buffer_full_secondary[c] = 1
                     <=> Written(c) >= node.buffer_size_secondary)
    /\ [][\A u \in UIds :
            PushWrites(u) =>
               /\ \A d \in SecChannels \ {u[2]} : ChannelState(d)' = ChannelState(d)
               /\ ChannelState(u[2])' # ChannelState(u[2])
               /\ UNCHANGED primaryVars]_vars

\* channel 1 has wrapped after three pushes while channel 2 holds one sample,
\* and both locks are free
C23_Witness ==
    /\ \A c \in SecChannels : lock_secondary[c] = Free
    /\ Written(1) = node.buffer_size_secondary + 1
    /\ wptr_secondary[1] = 1
    /\ buffer_full_secondary[1] = 1
    /\ Written(2) = 1
    /\ buffer_full_secondary[2] = 0

(* -------------------------------- beacon ------------------------------- *)
\* Every process start() launches for generation g has been launched.
AllLaunched(g) ==
    /\ g \in Gens
    /\ proc_broker[g].pc # "none"
    /\ node.run_publisher => proc_publisher[g] # "none"
    /\ node.primary_node => proc_receiver[g].pc # "none"
    /\ \A r \in RIds :
          r[1] = g /\ r[2] <= node.n_workers => proc_responder[r].pc # "none"
    /\ \A u \in UIds :
          u[1] = g /\ u[2] <= node.n_user => proc_user[u].pc # "none"

\* stop() terminates some responder or user process in this step.
Terminates ==
    \/ \E r \in RIds :
          proc_responder[r].pc # "terminated" /\ proc_responder'[r].pc = "terminated"
    \/ \E u \in UIds :
          proc_user[u].pc # "terminated" /\ proc_user'[u].pc = "terminated"

\* C24: the beacon's status is online only inside the node's running window:
\* it is online only when the broker, the publisher, the receiver, all
\* responders and all user processes of the current start() have been
\* launched, stop() has set it offline before it terminates any responder or
\* user process, and in every state online implies the run-flag is set.
C24_BeaconOnlineWhileRunning ==
    /\ [](beacon = "online" => run_state = 1 /\ AllLaunched(sup.gen))
    /\ [][Terminates => beacon = "offline" /\ beacon' = "offline"]_vars

\* the node is online in its second run, the responder of its first run
\* having been terminated by stop()
C24_Witness ==
    /\ beacon = "online"
    /\ sup.gen = 2
    /\ proc_responder[<<1, 1>>].pc = "terminated"
    /\ proc_user[<<1, 1>>].pc = "terminated"
    /\ Alive(proc_publisher[2])

(* ------------------------------ lock owners ---------------------------- *)
\* The process that holds lock l is still running.
OwnerRuns(l) ==
    \/ \E g \in Gens : l = RecvPid(g) /\ Alive(proc_receiver[g].pc)
    \/ \E r \in RIds : l = RespPid(r) /\ Alive(proc_responder[r].pc)
    \/ \E u \in UIds : l = UserPid(u) /\ Alive(proc_user[u].pc)

\* C25: in every reachable state, during and after stop() too, each ring
\* lock that is held (lock_primary or a lock_secondary[c]) is held by a
\* process that is still running: stop() never terminates a responder or a
\* user process that holds a ring lock.
C25_LocksHeldByRunningProcesses ==
    /\ lock_primary # Free => OwnerRuns(lock_primary)
    /\ \A c \in SecChannels :
          lock_secondary[c] # Free => OwnerRuns(lock_secondary[c])

(* ---------------------------- request window --------------------------- *)
\* The window [end_offset, duration] of the request responder r serves, as
\* the client sent it: data_snapshot has replaced its second element d by
\* end_offset - d.
RequestWindow(r) ==
    LET tw == proc_responder[r].message.timewindow
    IN  IF node.primary_node THEN <<tw[1], tw[1] - tw[2]>> ELSE tw

\* The ages of secondary channel c in the copies responder r has taken.
SecondaryAges(r, c) ==
    LET p == proc_responder[r]
    IN  AgeVector(Reindex(p.time_array_copy_secondary[c],
                          GetIndexVector(node.buffer_size_secondary,
                                         p.bf_copy_secondary[c],
                                         p.wp_copy_secondary[c])))

\* C26: within one request the primary and the secondary snapshot read the
\* request's window [end_offset, duration] alike: data_snapshot leaves the
\* window as the request gave it, and the range data_snapshot_secondary
\* selects is the one it selects for the request's window when no
\* data_snapshot ran before it.
C26_SnapshotKeepsWindow ==
    [][\A r \in RIds :
         /\ proc_responder[r].pc = "unwrap"
               /\ proc_responder'[r].pc \in {"snapshot_secondary", "reply"}
            => proc_responder'[r].message.timewindow
                  = proc_responder[r].message.timewindow
         /\ proc_responder[r].pc = "unwrap_secondary"
               /\ proc_responder'[r].pc = "reply"
            => \A c \in SecChannels :
                  proc_responder'[r].return_value.time_secondary[c]
                     = Slice(SecondaryAges(r, c),
                             FindRange(SecondaryAges(r, c), RequestWindow(r)))]_vars

(* ------------------------------ get_sample ----------------------------- *)
\* C27: get_sample(), called while the receiver keeps appending to a ring
\* of any length B >= 1, eventually returns, and the vector it returns is
\* the sample of one single append, the first append completed after the
\* call began.
C27_GetSampleReturnsNextAppend ==
    /\ \A u \in {<<1, 1>>} :
          (proc_user[u].pc = "get_sample_wait")
              ~> (proc_user[u].pc = "get_sample_return")
    /\ [](\A u \in UIds :
            proc_user[u].pc = "get_sample_return"
               => proc_user[u].sample = SampleX(proc_user[u].first))

====
